---- MODULE Spec2Model ----
(***************************************************************************)
(* Model of the Claude Code vs Codex sentiment pipeline:                   *)
(*   discovery (discover-reddit.ts)  -> discovered_urls.jsonl              *)
(*   scraping  (scrape.ts)           -> reddit_data.jsonl                  *)
(*   classification (analyze.ts)     -> sentiment_analysis.jsonl           *)
(*   dashboard (dashboard/app/page.tsx), the client-side aggregation.      *)
(* Each stage has a specification of its own (SpecDiscover, SpecContext,   *)
(* SpecAnalyze, SpecDashboard); the variables of the other stages stay at  *)
(* their initial values there.                                             *)
(*                                                                         *)
(* Texts are sequences of one-character strings, so that toLowerCase and   *)
(* String.includes are computed as the code computes them.  Wall-clock     *)
(* fields (discoveredAt, analyzedAt in the pipeline, timeSeconds) and the  *)
(* console output are not modelled.                                        *)
(***************************************************************************)
EXTENDS Integers, Sequences, FiniteSets, TLC

VARIABLES
    \* ---- files on disk (a file that does not exist is not in `exists`)
    exists,            \* names of the files that exist
    discoveredFile,    \* discovered_urls.jsonl, a sequence of lines
    redditData,        \* reddit_data.jsonl
    cleanData,         \* reddit_data_clean.jsonl
    sentimentFile,     \* sentiment_analysis.jsonl
    runLog,            \* logs/runs.jsonl
    dashboardFile,     \* dashboard/public/sentiment_analysis.jsonl
    \* ---- the classification process (analyze.ts main)
    apiKey,            \* process.env.ANTHROPIC_API_KEY is set
    aPc,               \* "idle" | "batch"
    analyzedIds,       \* loadAnalyzedComments() of this run
    candidateComments, \* candidates of this run
    batch,             \* candidateComments.slice(0, BATCH_SIZE)
    ai,                \* loop index i of the batch loop
    analyzed,          \* counter analyzed
    errors,            \* counter errors
    aSlept,            \* the delay of line 353 has run since the last classifier call
    aRuns,             \* invocations of analyze so far
    lastContext,       \* history: the last call of getThreadContext and its result
    aCompleted,        \* history: the results the classifier calls of the last
                       \* invocation returned, in the order of the calls
    aTerminated,       \* history: the invocation before this one was terminated
    \* ---- the scraping process (scrape.ts main)
    world,             \* the thread the Reddit API returns for a post id
    sPc,               \* "idle" | "loop"
    discoveredURLs,    \* loadDiscoveredURLs() of this run
    scrapedPostIds,    \* set of post ids already scraped
    si,                \* loop index i of the scrape loop
    sErrors,           \* counter errors
    sSkipped,          \* counter skipped
    sRuns,             \* invocations of scrape so far
    sFetched,          \* history: the post ids this run has asked the Reddit API for
    \* ---- the discovery process (discover-reddit.ts main)
    listing,           \* the subreddit listings, subreddit -> sequence of items
    cutoffTimestamp,   \* cutoffTimestamp of this run
    dPc,               \* "idle" | "loop"
    dSub,              \* index in SUBREDDITS of the subreddit being read
    dAfter,            \* the pagination cursor: items of the listing already fetched
    existingUrls,      \* loadDiscoveredURLs() plus the urls added since
    failing,           \* the page fetches <<subreddit, cursor>> that throw in this run
    dAppended,         \* history: records appended by this run
    dDone,             \* history: the last run ended normally
    dSame,             \* history: this run follows a complete run that had the
                       \* same cutoff and the same failing fetches
    \* ---- the dashboard (page.tsx)
    hostname,          \* window.location.hostname
    localStorage,      \* key -> <<the stored array>>, <<>> when the key is absent
    loading,
    data,              \* useState data
    ignoredComments,
    ignoredThreads,
    showIgnored,
    adminMode,
    weightByUpvotes,
    subredditFilter,
    themeFilter,
    lastToggle,        \* history: the last thread toggle and activeData before it
    \* ---- the rest of the pipeline
    redditCredentials, \* the REDDIT_* variables of the environment are set
    fRuns,             \* invocations of filter-clean so far
    probe,             \* the last call of a function on an input, with its result
    classifierFails    \* the reply ids on which every call of the classifier fails

fileVars == <<exists, discoveredFile, redditData, cleanData, sentimentFile, runLog,
              dashboardFile>>
analyzeVars == <<apiKey, aPc, analyzedIds, candidateComments, batch, ai, analyzed,
                 errors, aSlept, aRuns, lastContext, aCompleted, aTerminated>>
scrapeVars == <<world, sPc, discoveredURLs, scrapedPostIds, si, sErrors, sSkipped, sRuns,
                sFetched>>
discoverVars == <<listing, cutoffTimestamp, dPc, dSub, dAfter, existingUrls, failing,
                  dAppended, dDone, dSame>>
dashVars == <<hostname, localStorage, loading, data, ignoredComments, ignoredThreads, showIgnored,
              adminMode, weightByUpvotes, subredditFilter, themeFilter, lastToggle>>
otherVars == <<redditCredentials, fRuns, probe, classifierFails>>
vars == <<fileVars, analyzeVars, scrapeVars, discoverVars, dashVars, otherVars>>

\* A JavaScript undefined / null value of a field.
Undefined == "undefined"
Null == "null"

----------------------------------------------------------------------------
\* Texts

tEmpty == <<>>
tDeleted == <<"[", "d", "e", "l", "e", "t", "e", "d", "]">>
tRemoved == <<"[", "r", "e", "m", "o", "v", "e", "d", "]">>
tClaudeSpace == <<"C", "l", "a", "u", "d", "e", " ", "C", "o", "d", "e">>
tClaudeHyphen == <<"c", "l", "a", "u", "d", "e", "-", "c", "o", "d", "e">>
tCodex == <<"C", "O", "D", "E", "X">>
tOther == <<"h", "i">>

\* String.prototype.toLowerCase on the characters the texts use.
LowerChar(ch) ==
    CASE ch = "C" -> "c"
      [] ch = "O" -> "o"
      [] ch = "D" -> "d"
      [] ch = "E" -> "e"
      [] ch = "X" -> "x"
      [] ch = "POST TITLE: " -> "post title: "
      [] ch = "POST BODY: " -> "post body: "
      [] ch = "COMMENT (depth, score): " -> "comment (depth, score): "
      [] OTHER -> ch

toLowerCase(text) == [k \in 1..Len(text) |-> LowerChar(text[k])]

\* String.prototype.includes
includes(text, keyword) ==
    \E k \in 0..(Len(text) - Len(keyword)) :
        SubSeq(text, k + 1, k + Len(keyword)) = keyword

kwClaudeCode == <<"c", "l", "a", "u", "d", "e", " ", "c", "o", "d", "e">>
kwClaudeHyphenCode == <<"c", "l", "a", "u", "d", "e", "-", "c", "o", "d", "e">>
kwCodex == <<"c", "o", "d", "e", "x">>

REQUIRED_KEYWORDS == <<kwClaudeCode, kwCodex>>

\* A filter that is content with one keyword.
matchesKeywordsSome(text) ==
    LET normalized == toLowerCase(text)
    IN  \E k \in 1..Len(REQUIRED_KEYWORDS) : includes(normalized, REQUIRED_KEYWORDS[k])

matchesKeywords(text) ==
    LET normalized == toLowerCase(text)
    IN  \A k \in 1..Len(REQUIRED_KEYWORDS) : includes(normalized, REQUIRED_KEYWORDS[k])

mentionsBothToolsNoCodex(text) ==
    LET lower == toLowerCase(text)
    IN  includes(lower, kwClaudeCode) \/ includes(lower, kwClaudeHyphenCode)

mentionsBothTools(text) ==
    LET lower == toLowerCase(text)
        hasClaude == includes(lower, kwClaudeCode) \/ includes(lower, kwClaudeHyphenCode)
        hasCodex == includes(lower, kwCodex)
    IN  hasClaude /\ hasCodex

----------------------------------------------------------------------------
\* Scraping: the nested reply tree of the Reddit API, flattened

PostIds == {"p1", "p2"}

\* The ids of the replies of a thread; Reddit's ids are unique across threads.
CommentIdsOf(postId) ==
    IF postId = "p1" THEN <<"c1", "c2", "c3", "c4", "c5">>
    ELSE <<"d1", "d2", "d3", "d4", "d5">>

RECURSIVE SortedSeq(_)
SortedSeq(S) ==
    IF S = {} THEN <<>>
    ELSE LET m == CHOOSE x \in S : \A y \in S : x <= y
         IN  <<m>> \o SortedSeq(S \ {m})

\* The submission the API returns: reply k (in 1..n) has body bodies[k] and
\* hangs under reply par[k], or under the post when par[k] = 0.  nodes[k].replies
\* are the positions of its direct replies, submission.comments the top level.
RawThread(postId, subredditName, title, selftext, par, bodies) ==
    LET n == Len(par)
        ids == CommentIdsOf(postId)
    IN  [ id |-> postId,
          subreddit |-> subredditName,
          title |-> title,
          selftext |-> selftext,
          permalink |-> <<"/r/", subredditName, "/comments/", postId, "/">>,
          nodes |-> [k \in 1..n |->
                       [ id |-> ids[k],
                         body |-> bodies[k],
                         score |-> k - 1,
                         parent_id |-> IF par[k] = 0
                                       THEN [prefix |-> "t3_", id |-> postId]
                                       ELSE [prefix |-> "t1_", id |-> ids[par[k]]],
                         replies |-> SortedSeq({j \in 1..n : par[j] = k}) ]],
          comments |-> SortedSeq({j \in 1..n : par[j] = 0}) ]

\* The parent functions of the trees with n replies: a reply hangs under the post
\* or under an earlier reply.
ParentFunctions(n) == {par \in [1..n -> 0..n] : \A k \in 1..n : par[k] < k}

\* A parent reference that is taken over whatever it points at.
ParentIdOfAnyParent(comment) == comment.parent_id.id

\* comment.parent_id.match(/t[13]_(.+)/) plus the startsWith('t1_') test; a
\* missing parent_id is the record with an empty prefix.
ParentIdOf(comment) ==
    IF comment.parent_id.prefix \in {"t1_", "t3_"} /\ comment.parent_id.id # ""
    THEN IF comment.parent_id.prefix = "t1_" THEN comment.parent_id.id ELSE Null
    ELSE Null

SentinelBody(body) == body = tEmpty \/ body = tDeleted \/ body = tRemoved

\* extractComments(comments, depth): the list commentsList gains, in pre-order.
RECURSIVE extractComments(_, _, _)
extractComments(submission, comments, depth) ==
    IF comments = <<>> THEN <<>>
    ELSE LET comment == submission.nodes[Head(comments)]
             rest == extractComments(submission, Tail(comments), depth)
         IN  IF SentinelBody(comment.body) THEN rest
             ELSE << [ id |-> comment.id,
                       parentId |-> ParentIdOf(comment),
                       postId |-> submission.id,
                       depth |-> depth,
                       text |-> comment.body,
                       score |-> comment.score ] >>
                  \o (IF Len(comment.replies) > 0
                      THEN extractComments(submission, comment.replies, depth + 1)
                      ELSE <<>>)
                  \o rest

\* The post scrapePost builds from a fetched submission.
ScrapedPost(submission) ==
    [ postId |-> submission.id,
      subreddit |-> submission.subreddit,
      title |-> submission.title,
      selftext |-> submission.selftext,
      permalink |-> <<"https://reddit.com">> \o submission.permalink,
      comments |-> extractComments(submission, submission.comments, 0) ]

----------------------------------------------------------------------------
\* Thread context

\* A find that matches on the parentId: <<the first reply whose parent is id>>.
FindCommentByParent(allComments, id) ==
    IF \E k \in 1..Len(allComments) : allComments[k].parentId = id
    THEN << allComments[CHOOSE k \in 1..Len(allComments) :
                           /\ allComments[k].parentId = id
                           /\ \A j \in 1..(k - 1) : allComments[j].parentId # id] >>
    ELSE <<>>

\* allComments.find(c => c.id === id): <<the first match>>, or <<>> for undefined
FindComment(allComments, id) ==
    IF \E k \in 1..Len(allComments) : allComments[k].id = id
    THEN << allComments[CHOOSE k \in 1..Len(allComments) :
                           /\ allComments[k].id = id
                           /\ \A j \in 1..(k - 1) : allComments[j].id # id] >>
    ELSE <<>>

\* The while loop of getThreadContext; current is <<reply>> or <<>> (undefined).
\* fuel counts the iterations left before some reply has been visited twice; a
\* walk that uses it up never ends.
RECURSIVE WalkUp(_, _, _, _)
WalkUp(current, allComments, chain, fuel) ==
    IF current = <<>> THEN [chain |-> chain, ends |-> TRUE]
    ELSE IF fuel = 0 THEN [chain |-> chain, ends |-> FALSE]
    ELSE LET next == current \o chain
         IN  IF current[1].parentId = Null \/ current[1].parentId = ""
             THEN [chain |-> next, ends |-> TRUE]
             ELSE WalkUp(FindComment(allComments, current[1].parentId), allComments,
                         next, fuel - 1)

RECURSIVE Join(_, _)
Join(parts, sep) ==
    IF parts = <<>> THEN <<>>
    ELSE IF Len(parts) = 1 THEN parts[1]
    ELSE parts[1] \o sep \o Join(Tail(parts), sep)

\* The context record built from a chain (lines 92-103).  The interpolated
\* depth and score of a COMMENT header are digits and cannot hold a keyword; the
\* header is one element of the text.
BuildContext(chain, post) ==
    LET parts == << <<"POST TITLE: ">> \o post.title >>
                 \o (IF post.selftext # tEmpty
                     THEN << <<"POST BODY: ">> \o post.selftext >>
                     ELSE <<>>)
                 \o [k \in 1..Len(chain) |->
                        <<"COMMENT (depth, score): ">> \o chain[k].text]
    IN  [ postTitle |-> post.title,
          postBody |-> post.selftext,
          commentChain |-> chain,
          fullText |-> Join(parts, <<"\n\n">>) ]

\* A context whose chain is kept in walking order, from the target up to the root.
getThreadContextTargetFirst(comment, allComments, post) ==
    LET up == WalkUp(<<comment>>, allComments, <<>>, Len(allComments) + 1).chain
    IN  BuildContext([k \in 1..Len(up) |-> up[Len(up) + 1 - k]], post)

getThreadContext(comment, allComments, post) ==
    BuildContext(WalkUp(<<comment>>, allComments, <<>>, Len(allComments) + 1).chain, post)

----------------------------------------------------------------------------
\* Classification (analyze.ts)

INPUT_FILE == "reddit_data_clean.jsonl"
OUTPUT_FILE == "sentiment_analysis.jsonl"
DASHBOARD_OUTPUT_FILE == "dashboard/public/sentiment_analysis.jsonl"
RUN_LOG_FILE == "logs/runs.jsonl"
DISCOVERED_URLS_FILE == "discovered_urls.jsonl"
REDDIT_DATA_FILE == "reddit_data.jsonl"

\* 500 in the source; the model runs with a batch of this size.
BATCH_SIZE == 2

\* Invocations of one stage in a behaviour.
MaxRuns == 2

\* The 9 comparison categories of SentimentResult.
Categories ==
    { "codex_better", "claude_code_better", "equal", "neither", "off_topic",
      "claude_code_only_positive", "claude_code_only_negative",
      "codex_only_positive", "codex_only_negative" }

\* A line of a JSONL file is the record JSON.parse gives back for it: a key whose
\* value was undefined is absent, as JSON.stringify drops it.  A line that does
\* not parse is the record CorruptLine.
CorruptLine == [corrupt |-> TRUE]
Parses(line) == "corrupt" \notin DOMAIN line
Field(object, key) == IF key \in DOMAIN object THEN object[key] ELSE Undefined

\* The classifier's answer is a sequence of tokens: "{", "}", the code fence,
\* prose, and the members of a JSON object.
MemberTokens ==
    { "comparison:codex_better", "comparison:equal", "comparison:cursor_better" }

MemberValue(token) ==
    CASE token = "comparison:codex_better" -> "codex_better"
      [] token = "comparison:equal" -> "equal"
      [] token = "comparison:cursor_better" -> "cursor_better"

\* What anthropic.messages.create gives: an error thrown, a first content block
\* that is no text block, or a text.
ClassifierOutcomes ==
    { [type |-> "error", text |-> <<>>],
      [type |-> "tool_use", text |-> <<>>],
      [type |-> "text", text |-> <<"{", "comparison:codex_better", "}">>],
      [type |-> "text",
       text |-> <<"prose", "<fence>", "{", "comparison:codex_better", "}", "<fence>", "prose">>],
      [type |-> "text", text |-> <<"{", "comparison:cursor_better", "}">>],
      [type |-> "text", text |-> <<"prose">>] }

IndexesOf(text, token) == {k \in 1..Len(text) : text[k] = token}
MinOf(S) == CHOOSE x \in S : \A y \in S : x <= y
MaxOf(S) == CHOOSE x \in S : \A y \in S : x >= y

\* the fence regular expression of line 174, lazily matched: the text between
\* the first fence and the next one
StripFence(jsonText) ==
    LET fences == IndexesOf(jsonText, "<fence>")
    IN  IF Cardinality(fences) >= 2
        THEN LET first == MinOf(fences)
                 second == MinOf(fences \ {first})
             IN  SubSeq(jsonText, first + 1, second - 1)
        ELSE jsonText

\* A parser that is handed the text as it is.
ExtractObjectNothing(jsonText) == jsonText

\* the substring from the first { to the last }
ExtractObject(jsonText) ==
    LET open == IndexesOf(jsonText, "{")
        close == IndexesOf(jsonText, "}")
    IN  IF open # {} /\ close # {} /\ MaxOf(close) > MinOf(open)
        THEN SubSeq(jsonText, MinOf(open), MaxOf(close))
        ELSE jsonText

\* JSON.parse succeeds on "{", members, "}"
JsonParses(jsonText) ==
    /\ Len(jsonText) >= 2
    /\ jsonText[1] = "{"
    /\ jsonText[Len(jsonText)] = "}"
    /\ \A k \in 2..(Len(jsonText) - 1) : jsonText[k] \in MemberTokens

JsonParse(jsonText) ==
    IF \E k \in 2..(Len(jsonText) - 1) : jsonText[k] \in MemberTokens
    THEN [comparison |-> MemberValue(jsonText[MaxOf({k \in 2..(Len(jsonText) - 1) :
                                                       jsonText[k] \in MemberTokens})])]
    ELSE <<>>

\* JSON.stringify drops a member whose value is undefined.
WithComparison(result, comparison) ==
    IF comparison = Undefined THEN result ELSE result @@ [comparison |-> comparison]

\* analyzeSentiment: <<the result>>, or <<>> when it throws.
analyzeSentiment(context, comment, post, outcome) ==
    IF outcome.type = "error" THEN <<>>
    ELSE LET responseText == IF outcome.type = "text" THEN outcome.text ELSE <<"{", "}">>
             jsonText == ExtractObject(StripFence(responseText))
         IN  IF ~JsonParses(jsonText) THEN <<>>
             ELSE LET analysis == JsonParse(jsonText)
                  IN  << WithComparison(
                           [ commentId |-> comment.id,
                             postId |-> post.postId,
                             subreddit |-> post.subreddit,
                             permalink |-> post.permalink \o <<comment.id>>,
                             themes |-> <<>>,
                             quoteWorthy |-> FALSE,
                             score |-> comment.score ],
                           Field(analysis, "comparison")) >>

\* loadAnalyzedComments over the lines of sentiment_analysis.jsonl
loadAnalyzedComments(lines) ==
    {Field(lines[k], "commentId") : k \in {j \in 1..Len(lines) : Parses(lines[j])}}

RECURSIVE Flatten(_)
Flatten(seqs) == IF seqs = <<>> THEN <<>> ELSE Head(seqs) \o Flatten(Tail(seqs))

\* every reply of every post with its context, in the order of the two loops
AllReplies(posts) ==
    Flatten([p \in 1..Len(posts) |->
               [c \in 1..Len(posts[p].comments) |->
                  [ comment |-> posts[p].comments[c],
                    post |-> posts[p],
                    context |-> getThreadContext(posts[p].comments[c],
                                                 posts[p].comments, posts[p]) ]]])

\* the candidate selection of main (lines 293-306)
FindCandidates(posts, ids) ==
    LET Candidate(e) == /\ e.comment.id \notin ids
                        /\ mentionsBothTools(e.context.fullText)
    IN  SelectSeq(AllReplies(posts), Candidate)

\* A slice that takes everything.
MinIsSecond(a, b) == b

Min(a, b) == IF a < b THEN a ELSE b

SeqsUpTo(S, n) == UNION {[1..k -> S] : k \in 0..n}

\* A start-up that takes every credential for present.
MissingCredentialNever(set) == FALSE

\* !process.env.ANTHROPIC_API_KEY (line 268); for the Reddit stages, the Snoowrap
\* constructor (scrape.ts line 407, discover-reddit.ts line 7) throws when a
\* credential it is given is undefined, before main is called.
MissingCredential(set) == ~set

\* The process-local state of analyze.ts between two invocations.
AnalyzeAtRest ==
    /\ aPc = "idle"
    /\ analyzedIds = {}
    /\ candidateComments = <<>>
    /\ batch = <<>>
    /\ ai = 0
    /\ analyzed = 0
    /\ errors = 0
    /\ aSlept = FALSE

AnalyzeRest ==
    /\ aPc' = "idle"
    /\ analyzedIds' = {}
    /\ candidateComments' = <<>>
    /\ batch' = <<>>
    /\ ai' = 0
    /\ analyzed' = 0
    /\ errors' = 0
    /\ aSlept' = FALSE

analyzeFrame == <<discoveredFile, redditData, cleanData, apiKey, lastContext, scrapeVars,
                  discoverVars, dashVars, otherVars>>

\* `npm run analyze` up to the batch loop: the start-up checks, the load of the
\* posts, the candidate selection, the return when there is no candidate.
AnalyzeStart ==
    /\ aPc = "idle"
    /\ aRuns < MaxRuns
    /\ aRuns' = aRuns + 1
    /\ UNCHANGED <<analyzeFrame, exists, sentimentFile, runLog, dashboardFile>>
    /\ aCompleted' = <<>>
    /\ IF \/ MissingCredential(apiKey)
          \/ INPUT_FILE \notin exists
          \/ \E k \in 1..Len(cleanData) : ~Parses(cleanData[k])
       THEN AnalyzeRest
       ELSE LET ids == IF OUTPUT_FILE \in exists
                       THEN loadAnalyzedComments(sentimentFile)
                       ELSE {}
                found == FindCandidates(cleanData, ids)
            IN  IF found = <<>>
                THEN AnalyzeRest
                ELSE /\ aPc' = "batch"
                     /\ analyzedIds' = ids
                     /\ candidateComments' = found
                     /\ batch' = SubSeq(found, 1, Min(BATCH_SIZE, Len(found)))
                     /\ ai' = 0
                     /\ analyzed' = 0
                     /\ errors' = 0
                     /\ aSlept' = FALSE
    /\ aTerminated' = (aTerminated /\ aPc' = "batch")

\* A write that replaces the file.
saveSentimentTruncating(lines, result) == <<result>>

\* saveSentiment: the file after writeFileSync with flag 'a'
saveSentiment(lines, result) == Append(lines, result)

\* A catch block that does not count.
CatchErrorUncounted(count) == count

\* the catch block of the batch loop: errors++
CatchError(count) == count + 1

\* One iteration of the batch loop, for each outcome of the classifier call.
AnalyzeStep ==
    /\ aPc = "batch"
    /\ ai < Len(batch)
    /\ \E outcome \in ClassifierOutcomes :
          LET e == batch[ai + 1]
              result == analyzeSentiment(e.context, e.comment, e.post, outcome)
          IN  IF result # <<>>
              THEN /\ sentimentFile' = saveSentiment(sentimentFile, result[1])
                   /\ exists' = exists \cup {OUTPUT_FILE}
                   /\ analyzed' = analyzed + 1
                   /\ errors' = errors
                   /\ aCompleted' = Append(aCompleted, result[1])
                   /\ aSlept' = TRUE
              ELSE /\ errors' = CatchError(errors)
                   /\ aSlept' = FALSE
                   /\ UNCHANGED <<sentimentFile, exists, analyzed, aCompleted>>
    /\ ai' = ai + 1
    /\ UNCHANGED <<analyzeFrame, runLog, dashboardFile, aPc, analyzedIds,
                   candidateComments, batch, aRuns, aTerminated>>

\* After the loop: logRun, then the copy to the dashboard.
AnalyzeFinish ==
    /\ aPc = "batch"
    /\ ai = Len(batch)
    /\ runLog' = Append(runLog,
                        [ totalCandidates |-> Len(candidateComments)
                                              + Cardinality(analyzedIds),
                          alreadyAnalyzed |-> Cardinality(analyzedIds),
                          analyzedThisRun |-> analyzed,
                          errors |-> errors,
                          batchSize |-> BATCH_SIZE ])
    /\ IF OUTPUT_FILE \in exists
       THEN /\ dashboardFile' = sentimentFile
            /\ exists' = exists \cup {RUN_LOG_FILE, DASHBOARD_OUTPUT_FILE}
       ELSE /\ dashboardFile' = dashboardFile
            /\ exists' = exists \cup {RUN_LOG_FILE}
    /\ AnalyzeRest
    /\ aTerminated' = FALSE
    /\ UNCHANGED <<analyzeFrame, sentimentFile, aRuns, aCompleted>>

\* The process is terminated from outside during the batch loop: between two
\* iterations, during a classifier call, or after analyzeSentiment has returned
\* and before saveSentiment has written (lines 331-332).
AnalyzeKill ==
    /\ aPc = "batch"
    /\ AnalyzeRest
    /\ aTerminated' = TRUE
    /\ \/ aCompleted' = aCompleted
       \/ /\ ai < Len(batch)
          /\ \E outcome \in ClassifierOutcomes :
                LET e == batch[ai + 1]
                    result == analyzeSentiment(e.context, e.comment, e.post, outcome)
                IN  /\ result # <<>>
                    /\ aCompleted' = Append(aCompleted, result[1])
    /\ UNCHANGED <<analyzeFrame, exists, sentimentFile, runLog, dashboardFile, aRuns>>

----------------------------------------------------------------------------
\* Scraping (scrape.ts)

\* A URL is a sequence of path pieces.
RedditUrl(host, subredditName, postId) ==
    <<host, "/r/", subredditName, "/comments/", postId, "/">>

\* extractPostId: url.match(/comments\/(\w+)/), Null when there is no match
extractPostId(url) ==
    LET at == {k \in 1..(Len(url) - 1) : url[k] = "/comments/" /\ url[k + 1] \in PostIds}
    IN  IF at = {} THEN Null ELSE url[MinOf(at) + 1]

\* A start-up that reads nothing from reddit_data.jsonl.
LoadScrapedPostIdsNothing(lines) == {}

\* the post ids of the lines of reddit_data.jsonl that parse (lines 593-605)
LoadScrapedPostIds(lines) ==
    {Field(lines[k], "postId") : k \in {j \in 1..Len(lines) : Parses(lines[j])}}

ScrapeAtRest ==
    /\ sPc = "idle"
    /\ discoveredURLs = <<>>
    /\ scrapedPostIds = {}
    /\ si = 0
    /\ sErrors = 0
    /\ sSkipped = 0
    /\ sFetched = {}

ScrapeRest ==
    /\ sPc' = "idle"
    /\ discoveredURLs' = <<>>
    /\ scrapedPostIds' = {}
    /\ si' = 0
    /\ sErrors' = 0
    /\ sSkipped' = 0
    /\ sFetched' = {}

scrapeFrame == <<discoveredFile, cleanData, sentimentFile, runLog, dashboardFile, world,
                 analyzeVars, discoverVars, dashVars, otherVars>>

\* `npm run scrape` up to the loop: loadDiscoveredURLs and the already scraped ids.
ScrapeStart ==
    /\ sPc = "idle"
    /\ sRuns < MaxRuns
    /\ sRuns' = sRuns + 1
    /\ UNCHANGED <<scrapeFrame, exists, redditData>>
    /\ IF \/ MissingCredential(redditCredentials)
          \/ DISCOVERED_URLS_FILE \notin exists
          \/ discoveredFile = <<>>
          \/ \E k \in 1..Len(discoveredFile) : ~Parses(discoveredFile[k])
       THEN ScrapeRest
       ELSE /\ sPc' = "loop"
            /\ discoveredURLs' = discoveredFile
            /\ scrapedPostIds' = IF REDDIT_DATA_FILE \in exists
                                 THEN LoadScrapedPostIds(redditData)
                                 ELSE {}
            /\ si' = 0
            /\ sErrors' = 0
            /\ sSkipped' = 0
            /\ sFetched' = {}

\* One iteration of the scrape loop; the fetch of the submission succeeds or fails.
ScrapeStep ==
    /\ sPc = "loop"
    /\ si < Len(discoveredURLs)
    /\ si' = si + 1
    /\ UNCHANGED <<scrapeFrame, sPc, discoveredURLs, sRuns>>
    /\ LET postId == extractPostId(discoveredURLs[si + 1].url)
       IN  IF postId = Null
           THEN /\ sErrors' = sErrors + 1
                /\ UNCHANGED <<exists, redditData, scrapedPostIds, sSkipped, sFetched>>
           ELSE IF postId \in scrapedPostIds
           THEN /\ sSkipped' = sSkipped + 1
                /\ UNCHANGED <<exists, redditData, scrapedPostIds, sErrors, sFetched>>
           ELSE \E fetched \in BOOLEAN :
                /\ sFetched' = sFetched \cup {postId}
                /\ IF fetched
                   THEN LET post == ScrapedPost(world[postId])
                        IN  /\ redditData' = Append(redditData, post)
                            /\ exists' = exists \cup {REDDIT_DATA_FILE}
                            /\ scrapedPostIds' = scrapedPostIds \cup {post.postId}
                            /\ UNCHANGED <<sErrors, sSkipped>>
                   ELSE /\ sSkipped' = sSkipped + 1
                        /\ UNCHANGED <<exists, redditData, scrapedPostIds, sErrors>>

\* The loop is over and main returns.
ScrapeFinish ==
    /\ sPc = "loop"
    /\ si = Len(discoveredURLs)
    /\ ScrapeRest
    /\ UNCHANGED <<scrapeFrame, exists, redditData, sRuns>>

\* The process is terminated from outside during the loop.
ScrapeKill ==
    /\ sPc = "loop"
    /\ ScrapeRest
    /\ UNCHANGED <<scrapeFrame, exists, redditData, sRuns>>

\* The call of getThreadContext at line 299, for one reply of one scraped thread.
ContextStep ==
    /\ sPc = "idle"
    /\ \E p \in 1..Len(redditData) :
          \E c \in 1..Len(redditData[p].comments) :
             lastContext' =
                << [ target |-> redditData[p].comments[c],
                     post |-> redditData[p],
                     context |-> getThreadContext(redditData[p].comments[c],
                                                  redditData[p].comments,
                                                  redditData[p]) ] >>
    /\ UNCHANGED <<fileVars, apiKey, aPc, analyzedIds, candidateComments, batch, ai,
                   analyzed, errors, aSlept, aRuns, aCompleted, aTerminated, scrapeVars,
                   discoverVars, dashVars, otherVars>>

----------------------------------------------------------------------------
\* Reddit discovery (discover-reddit.ts)

SUBREDDITS == <<"ClaudeCode", "codex", "ChatGPTCoding">>

\* limit: 100 in the source; the model fetches pages of this size.
PAGE_LIMIT == 2

\* The cutoff of a run (now minus MONTHS_BACK) and the creation times of items.
Cutoffs == {2, 4}
CreationTimes == {1, 3}

\* A discovery that never reads the file.
loadDiscoveredURLsNothing(lines) == {}

\* loadDiscoveredURLs over the lines of discovered_urls.jsonl
loadDiscoveredURLs(lines) ==
    {Field(lines[k], "url") : k \in {j \in 1..Len(lines) : Parses(lines[j])}}

\* The per-item loop over one fetched page (lines 111-149): the records appended,
\* the urls known afterwards, and whether the cutoff was reached.
RECURSIVE ProcessPage(_, _, _, _)
ProcessPage(page, urls, cutoff, subredditName) ==
    IF page = <<>> THEN [appended |-> <<>>, urls |-> urls, reachedCutoff |-> FALSE]
    ELSE LET post == Head(page)
             permalink == <<"https://reddit.com">> \o post.permalink
             searchText == post.title \o <<" ">> \o post.selftext
         IN  IF post.created_utc < cutoff
             THEN [appended |-> <<>>, urls |-> urls, reachedCutoff |-> TRUE]
             ELSE IF permalink \in urls \/ ~matchesKeywords(searchText)
             THEN ProcessPage(Tail(page), urls, cutoff, subredditName)
             ELSE LET rest == ProcessPage(Tail(page), urls \cup {permalink}, cutoff,
                                          subredditName)
                  IN  [ appended |-> << [ url |-> permalink,
                                          query |-> "reddit_api",
                                          subreddit |-> subredditName,
                                          created |-> post.created_utc ] >>
                                     \o rest.appended,
                        urls |-> rest.urls,
                        reachedCutoff |-> rest.reachedCutoff ]

DiscoverRest ==
    /\ dPc' = "idle"
    /\ dSub' = 0
    /\ dAfter' = 0
    /\ existingUrls' = {}

discoverFrame == <<redditData, cleanData, sentimentFile, runLog, dashboardFile, listing,
                   analyzeVars, scrapeVars, dashVars, otherVars>>

\* The fetches that can throw: the first two pages of the first subreddit and
\* the first page of the second one.
FailingFetches == {<<1, 0>>, <<1, PAGE_LIMIT>>, <<2, 0>>}

\* `npm run discover` starts; the clock, and with it the cutoff, never goes back.
DiscoverStart ==
    /\ dPc = "idle"
    /\ UNCHANGED <<discoverFrame, exists, discoveredFile>>
    /\ IF MissingCredential(redditCredentials)
       THEN /\ DiscoverRest
            /\ dAppended' = 0
            /\ dDone' = FALSE
            /\ dSame' = FALSE
            /\ UNCHANGED <<cutoffTimestamp, failing>>
       ELSE /\ dPc' = "loop"
            /\ dSub' = 1
            /\ dAfter' = 0
            /\ existingUrls' = {}
            /\ cutoffTimestamp' \in {c \in Cutoffs : c >= cutoffTimestamp}
            /\ failing' \in SUBSET FailingFetches
            /\ dAppended' = 0
            /\ dDone' = FALSE
            /\ dSame' = (dDone /\ cutoffTimestamp' = cutoffTimestamp /\ failing' = failing)

\* A failure that ends the whole run.
LeaveSubredditEndsRun == DiscoverRest /\ dDone' = TRUE

\* discoverFromSubreddit is left: the next subreddit, or the end of main.
LeaveSubreddit ==
    IF dSub < Len(SUBREDDITS)
    THEN /\ dSub' = dSub + 1
         /\ dAfter' = 0
         /\ existingUrls' = {}
         /\ UNCHANGED <<dPc, dDone>>
    ELSE /\ DiscoverRest
         /\ dDone' = TRUE

\* One turn of the pagination loop of discoverFromSubreddit: the fetch of a page,
\* which may throw, and the loop over its items.  The first turn for a subreddit
\* comes after loadDiscoveredURLs.
DiscoverPage ==
    /\ dPc = "loop"
    /\ UNCHANGED <<discoverFrame, cutoffTimestamp, failing, dSame>>
    /\ LET subredditName == SUBREDDITS[dSub]
           all == listing[subredditName]
           page == SubSeq(all, dAfter + 1, Min(dAfter + PAGE_LIMIT, Len(all)))
           known == IF dAfter = 0
                    THEN (IF DISCOVERED_URLS_FILE \in exists
                          THEN loadDiscoveredURLs(discoveredFile)
                          ELSE {})
                    ELSE existingUrls
       IN  IF <<dSub, dAfter>> \in failing
           THEN /\ UNCHANGED <<exists, discoveredFile, dAppended>>
                /\ LeaveSubreddit
           ELSE IF page = <<>>
           THEN /\ UNCHANGED <<exists, discoveredFile, dAppended>>
                /\ LeaveSubreddit
           ELSE LET done == ProcessPage(page, known, cutoffTimestamp, subredditName)
                IN  /\ discoveredFile' = discoveredFile \o done.appended
                    /\ exists' = IF done.appended # <<>>
                                 THEN exists \cup {DISCOVERED_URLS_FILE}
                                 ELSE exists
                    /\ dAppended' = dAppended + Len(done.appended)
                    /\ IF done.reachedCutoff
                       THEN LeaveSubreddit
                       ELSE /\ dAfter' = dAfter + Len(page)
                            /\ existingUrls' = done.urls
                            /\ UNCHANGED <<dPc, dSub, dDone>>

\* The process is terminated from outside during a run.
DiscoverKill ==
    /\ dPc = "loop"
    /\ DiscoverRest
    /\ UNCHANGED <<discoverFrame, exists, discoveredFile, cutoffTimestamp, failing,
                   dAppended, dDone, dSame>>

----------------------------------------------------------------------------
\* The clean-dataset filter (filter-clean.ts)

\* the post ids of the references of discovered_urls.jsonl found by the Reddit API
redditDiscovered(lines) ==
    {extractPostId(lines[k].url) :
        k \in {j \in 1..Len(lines) : /\ Parses(lines[j])
                                     /\ Field(lines[j], "query") = "reddit_api"
                                     /\ "url" \in DOMAIN lines[j]
                                     /\ extractPostId(lines[j].url) # Null}}

\* `npm run filter-clean`: every scraped thread that the Reddit API discovered
\* is appended to reddit_data_clean.jsonl.
FilterClean ==
    /\ fRuns < MaxRuns
    /\ fRuns' = fRuns + 1
    /\ IF DISCOVERED_URLS_FILE \notin exists \/ REDDIT_DATA_FILE \notin exists
       THEN UNCHANGED <<exists, cleanData>>
       ELSE LET wanted == redditDiscovered(discoveredFile)
                Keep(line) == Parses(line) /\ Field(line, "postId") \in wanted
                kept == SelectSeq(redditData, Keep)
            IN  /\ cleanData' = cleanData \o kept
                /\ exists' = IF kept # <<>> THEN exists \cup {INPUT_FILE} ELSE exists
    /\ UNCHANGED <<discoveredFile, redditData, sentimentFile, runLog, dashboardFile,
                   analyzeVars, scrapeVars, discoverVars, dashVars, redditCredentials,
                   probe, classifierFails>>

----------------------------------------------------------------------------
\* The dashboard (page.tsx)

\* A JavaScript Set is the sequence of its members in insertion order.
has(set, x) == \E k \in 1..Len(set) : set[k] = x

RECURSIVE NewSet(_)
NewSet(array) ==
    IF array = <<>> THEN <<>>
    ELSE LET front == NewSet(SubSeq(array, 1, Len(array) - 1))
             last == array[Len(array)]
         IN  IF has(front, last) THEN front ELSE Append(front, last)

Without(set, x) ==
    LET Other(y) == y # x
    IN  SelectSeq(set, Other)

\* A toggle that only ever adds.
toggleAddOnly(prev, x) == IF has(prev, x) THEN prev ELSE Append(prev, x)

\* the updater of toggleIgnored and of toggleThreadIgnored
toggle(prev, x) == IF has(prev, x) THEN Without(prev, x) ELSE Append(prev, x)

NoItems == [ignoredComments |-> <<>>, ignoredThreads |-> <<>>]

\* the effects of lines 57-69: a set is stored when it is not empty
SaveIgnored(storage, key, set) ==
    IF Len(set) > 0 THEN [storage EXCEPT ![key] = <<set>>] ELSE storage

\* the effect of lines 45-55: the set a key of localStorage is read back as
LoadIgnored(storage, key) ==
    IF storage[key] # <<>> THEN NewSet(storage[key][1]) ELSE <<>>

\* A check that takes every host for a local one.
isLocalAnywhere(host) == TRUE

isLocal(host) == host = "localhost" \/ host = "127.0.0.1"

getPreference(comparison) ==
    IF comparison \in {"codex_better", "codex_only_positive", "codex_only_negative"}
    THEN "codex"
    ELSE IF comparison \in {"claude_code_better", "claude_code_only_positive",
                            "claude_code_only_negative"}
    THEN "claude_code"
    ELSE IF comparison = "equal" THEN "neutral"
    ELSE "unclear"

\* A view that drops a result when both its reply and its thread are ignored.
activeDataBothIgnored ==
    LET Kept(d) == ~has(ignoredComments, Field(d, "commentId"))
                   \/ ~has(ignoredThreads, Field(d, "postId"))
    IN  IF showIgnored THEN data ELSE SelectSeq(data, Kept)

activeData ==
    LET Kept(d) == ~has(ignoredComments, Field(d, "commentId"))
                   /\ ~has(ignoredThreads, Field(d, "postId"))
    IN  IF showIgnored THEN data ELSE SelectSeq(data, Kept)

\* the keys of subredditCount
subreddits ==
    { IF "subreddit" \in DOMAIN activeData[k] THEN activeData[k].subreddit ELSE "unknown" :
        k \in 1..Len(activeData) }

\* subredditCount[subredditName], the count shown on the button r/subredditName
subredditCount(subredditName) ==
    LET Named(d) == (IF "subreddit" \in DOMAIN d THEN d.subreddit ELSE "unknown")
                    = subredditName
    IN  Len(SelectSeq(activeData, Named))

subredditFilteredData ==
    LET Same(d) == Field(d, "subreddit") = subredditFilter
    IN  IF subredditFilter = "all" THEN activeData ELSE SelectSeq(activeData, Same)

themeFilteredData ==
    LET Tagged(d) == has(d.themes, themeFilter)
    IN  IF themeFilter = "all"
        THEN subredditFilteredData
        ELSE SelectSeq(subredditFilteredData, Tagged)

\* The themes of the theme-filtered results.
topThemesOfThemeFiltered ==
    UNION { {themeFilteredData[k].themes[j] :
               j \in 1..Len(themeFilteredData[k].themes)} :
            k \in 1..Len(themeFilteredData) }

\* the keys of themeCount
topThemes ==
    UNION { {subredditFilteredData[k].themes[j] :
               j \in 1..Len(subredditFilteredData[k].themes)} :
            k \in 1..Len(subredditFilteredData) }

\* themeCount[theme]: one for every occurrence of the theme in the themes of a
\* result of subredditFilteredData
themeCount(theme) ==
    Cardinality(UNION { {<<k, j>> : j \in {i \in 1..Len(subredditFilteredData[k].themes) :
                                            subredditFilteredData[k].themes[i] = theme}} :
                        k \in 1..Len(subredditFilteredData) })

total == Len(themeFilteredData)

\* themeFilteredData.filter(d => d.comparison === comparison)
OfComparison(comparison) ==
    LET Is(d) == Field(d, "comparison") = comparison
    IN  SelectSeq(themeFilteredData, Is)

claudeCodeBetter == Len(OfComparison("claude_code_better"))
codexBetter == Len(OfComparison("codex_better"))
equal == Len(OfComparison("equal"))
claudeCodeOnlyPositive == Len(OfComparison("claude_code_only_positive"))
claudeCodeOnlyNegative == Len(OfComparison("claude_code_only_negative"))
codexOnlyPositive == Len(OfComparison("codex_only_positive"))
codexOnlyNegative == Len(OfComparison("codex_only_negative"))
neither == Len(OfComparison("neither"))
offTopic == Len(OfComparison("off_topic"))

preferClaudeCode == claudeCodeBetter + claudeCodeOnlyPositive + claudeCodeOnlyNegative
preferCodex == codexBetter + codexOnlyPositive + codexOnlyNegative
neutral == equal
unclear == neither + offTopic

\* reduce((sum, d) => sum + (d.score || 0), 0)
RECURSIVE SumScores(_)
SumScores(results) ==
    IF results = <<>> THEN 0
    ELSE (IF "score" \in DOMAIN Head(results) THEN Head(results).score ELSE 0)
         + SumScores(Tail(results))

totalUpvotes == SumScores(themeFilteredData)

\* Upvotes that are summed without looking at the category.
UpvotesOfAll(comparison) == SumScores(themeFilteredData)

UpvotesOf(comparison) == SumScores(OfComparison(comparison))

claudeCodeBetterUpvotes == UpvotesOf("claude_code_better")
codexBetterUpvotes == UpvotesOf("codex_better")
equalUpvotes == UpvotesOf("equal")
claudeCodeOnlyPositiveUpvotes == UpvotesOf("claude_code_only_positive")
claudeCodeOnlyNegativeUpvotes == UpvotesOf("claude_code_only_negative")
codexOnlyPositiveUpvotes == UpvotesOf("codex_only_positive")
codexOnlyNegativeUpvotes == UpvotesOf("codex_only_negative")
neitherUpvotes == UpvotesOf("neither")
offTopicUpvotes == UpvotesOf("off_topic")

\* the count a breakdown tile shows with weightByUpvotes off
TileCount(category) ==
    CASE category = "claude_code_better" -> claudeCodeBetter
      [] category = "codex_better" -> codexBetter
      [] category = "equal" -> equal
      [] category = "claude_code_only_positive" -> claudeCodeOnlyPositive
      [] category = "claude_code_only_negative" -> claudeCodeOnlyNegative
      [] category = "codex_only_positive" -> codexOnlyPositive
      [] category = "codex_only_negative" -> codexOnlyNegative
      [] category = "neither" -> neither
      [] category = "off_topic" -> offTopic

\* the sum a breakdown tile shows with weightByUpvotes on
TileUpvotes(category) ==
    CASE category = "claude_code_better" -> claudeCodeBetterUpvotes
      [] category = "codex_better" -> codexBetterUpvotes
      [] category = "equal" -> equalUpvotes
      [] category = "claude_code_only_positive" -> claudeCodeOnlyPositiveUpvotes
      [] category = "claude_code_only_negative" -> claudeCodeOnlyNegativeUpvotes
      [] category = "codex_only_positive" -> codexOnlyPositiveUpvotes
      [] category = "codex_only_negative" -> codexOnlyNegativeUpvotes
      [] category = "neither" -> neitherUpvotes
      [] category = "off_topic" -> offTopicUpvotes

TileValue(category) == IF weightByUpvotes THEN TileUpvotes(category) ELSE TileCount(category)

\* Grouped upvotes
claudeCodeUpvotes ==
    claudeCodeBetterUpvotes + claudeCodeOnlyPositiveUpvotes + claudeCodeOnlyNegativeUpvotes
codexUpvotes == codexBetterUpvotes + codexOnlyPositiveUpvotes + codexOnlyNegativeUpvotes

\* A JavaScript number that came out of (n / d) * 100: the exact ratio, or NaN
\* for 0 / 0, or an infinity for a nonzero n over 0.
Ratio(n, d) ==
    IF d # 0 THEN [kind |-> "finite", num |-> n * 100, den |-> d]
    ELSE IF n = 0 THEN [kind |-> "NaN", num |-> 0, den |-> 0]
    ELSE [kind |-> "Infinity", num |-> n, den |-> 0]

ZeroNumber == [kind |-> "finite", num |-> 0, den |-> 1]

totalLabeled == preferClaudeCode + preferCodex
claudeCodePctLabeled ==
    IF totalLabeled > 0 THEN Ratio(preferClaudeCode, totalLabeled) ELSE ZeroNumber
codexPctLabeled ==
    IF totalLabeled > 0 THEN Ratio(preferCodex, totalLabeled) ELSE ZeroNumber

\* the two percentages of the clear-preference panel
PreferClaudeCodeShown ==
    IF weightByUpvotes
    THEN Ratio(claudeCodeUpvotes, claudeCodeUpvotes + codexUpvotes)
    ELSE claudeCodePctLabeled

PreferCodexShown ==
    IF weightByUpvotes
    THEN Ratio(codexUpvotes, claudeCodeUpvotes + codexUpvotes)
    ELSE codexPctLabeled

dashFrame == <<fileVars, analyzeVars, scrapeVars, discoverVars, hostname, otherVars>>

\* The page is opened or reloaded: every useState starts from its default, then
\* the effects of lines 39-69 run.
Mount ==
    /\ adminMode' = isLocal(hostname)
    /\ ignoredComments' = LoadIgnored(localStorage, "ignoredComments")
    /\ ignoredThreads' = LoadIgnored(localStorage, "ignoredThreads")
    /\ localStorage' = SaveIgnored(SaveIgnored(localStorage, "ignoredComments",
                                               ignoredComments'),
                                   "ignoredThreads", ignoredThreads')
    /\ loading' = TRUE
    /\ data' = <<>>
    /\ showIgnored' = FALSE
    /\ weightByUpvotes' = FALSE
    /\ subredditFilter' = "all"
    /\ themeFilter' = "all"
    /\ lastToggle' = <<>>
    /\ UNCHANGED dashFrame

\* The fetch of /sentiment_analysis.jsonl resolves.  When a line does not parse
\* the promise rejects and the page keeps loading.
LoadData ==
    /\ loading
    /\ DASHBOARD_OUTPUT_FILE \in exists
    /\ \A k \in 1..Len(dashboardFile) : Parses(dashboardFile[k])
    /\ data' = dashboardFile
    /\ loading' = FALSE
    /\ UNCHANGED <<dashFrame, localStorage, ignoredComments, ignoredThreads, showIgnored,
                   adminMode, weightByUpvotes, subredditFilter, themeFilter, lastToggle>>

\* The results that have a card, under some setting of the comparison, model
\* and quote-worthy filters of the list.
Cards == {themeFilteredData[k] : k \in 1..Len(themeFilteredData)}

\* A click on the Ignore / Restore button of a card, with the effect of lines
\* 58-62 that follows it.
toggleIgnored ==
    /\ ~loading
    /\ adminMode
    /\ \E result \in Cards :
          /\ ignoredComments' = toggle(ignoredComments, Field(result, "commentId"))
          /\ localStorage' = SaveIgnored(localStorage, "ignoredComments", ignoredComments')
    /\ lastToggle' = <<>>
    /\ UNCHANGED <<dashFrame, loading, data, ignoredThreads, showIgnored, adminMode,
                   weightByUpvotes, subredditFilter, themeFilter>>

\* A click on the Ignore Thread / Restore Thread button of a card, with the
\* effect of lines 65-69 that follows it.
toggleThreadIgnored ==
    /\ ~loading
    /\ adminMode
    /\ \E result \in Cards :
          LET postId == Field(result, "postId")
          IN  /\ ignoredThreads' = toggle(ignoredThreads, postId)
              /\ localStorage' = SaveIgnored(localStorage, "ignoredThreads", ignoredThreads')
              /\ lastToggle' =
                    IF ~has(ignoredThreads, postId)
                    THEN << [ postId |-> postId, restored |-> FALSE, data |-> data,
                              showIgnored |-> showIgnored, activeData |-> activeData ] >>
                    ELSE IF /\ lastToggle # <<>>
                            /\ lastToggle[1].postId = postId
                            /\ ~lastToggle[1].restored
                    THEN << [lastToggle[1] EXCEPT !.restored = TRUE] >>
                    ELSE <<>>
    /\ UNCHANGED <<dashFrame, loading, data, ignoredComments, showIgnored, adminMode,
                   weightByUpvotes, subredditFilter, themeFilter>>

\* The Showing Ignored / Hiding Ignored button.
ToggleShowIgnored ==
    /\ ~loading
    /\ adminMode
    /\ showIgnored' = ~showIgnored
    /\ UNCHANGED <<dashFrame, localStorage, loading, data, ignoredComments, ignoredThreads,
                   adminMode, weightByUpvotes, subredditFilter, themeFilter, lastToggle>>

\* The Weight by upvotes checkbox.
ToggleWeightByUpvotes ==
    /\ ~loading
    /\ weightByUpvotes' = ~weightByUpvotes
    /\ UNCHANGED <<dashFrame, localStorage, loading, data, ignoredComments, ignoredThreads,
                   showIgnored, adminMode, subredditFilter, themeFilter, lastToggle>>

\* A subreddit button: All Subreddits, or one of the keys of subredditCount.
SelectSubreddit ==
    /\ ~loading
    /\ subredditFilter' \in ({"all"} \cup subreddits) \ {subredditFilter}
    /\ UNCHANGED <<dashFrame, localStorage, loading, data, ignoredComments, ignoredThreads,
                   showIgnored, adminMode, weightByUpvotes, themeFilter, lastToggle>>

\* A theme button: All Themes, or one of the top themes.
SelectTheme ==
    /\ ~loading
    /\ themeFilter' \in ({"all"} \cup topThemes) \ {themeFilter}
    /\ UNCHANGED <<dashFrame, localStorage, loading, data, ignoredComments, ignoredThreads,
                   showIgnored, adminMode, weightByUpvotes, subredditFilter, lastToggle>>

----------------------------------------------------------------------------
\* Initial states

DiscoverAtRest ==
    /\ cutoffTimestamp = 0
    /\ dPc = "idle"
    /\ dSub = 0
    /\ dAfter = 0
    /\ existingUrls = {}
    /\ failing = {}
    /\ dAppended = 0
    /\ dDone = FALSE
    /\ dSame = FALSE

OtherAtRest ==
    /\ redditCredentials = TRUE
    /\ fRuns = 0
    /\ probe = <<>>
    /\ classifierFails = {}

DashboardAtRest ==
    /\ hostname = "localhost"
    /\ localStorage = NoItems
    /\ loading = TRUE
    /\ data = <<>>
    /\ ignoredComments = <<>>
    /\ ignoredThreads = <<>>
    /\ showIgnored = FALSE
    /\ adminMode = FALSE
    /\ weightByUpvotes = FALSE
    /\ subredditFilter = "all"
    /\ themeFilter = "all"
    /\ lastToggle = <<>>

\* The threads the stores of the classification stage are drawn from, as the
\* scraper writes them: a post with a reply and a reply to that reply.
AnalyzeThreads ==
    { RawThread("p1", "codex", tCodex, tEmpty, <<0, 1>>, bodies) :
        bodies \in { <<tClaudeSpace, tOther>>, <<tOther, tClaudeHyphen>>,
                     <<tOther, tOther>> } }
    \cup
    { RawThread("p2", "ClaudeCode", tOther, tCodex, <<0, 1>>, <<b1, tOther>>) :
        b1 \in {tClaudeSpace, tClaudeHyphen} }
    \cup
    { RawThread("p2", "ClaudeCode", tOther, tEmpty, <<0, 1>>, <<tClaudeSpace, tOther>>) }

AnalyzePosts == {ScrapedPost(t) : t \in AnalyzeThreads}

\* reddit_data_clean.jsonl holds at most two threads, a thread possibly twice
\* (filter-clean appends to the file each time it runs).
AnalyzeStores ==
    {<<>>} \cup {<<a>> : a \in AnalyzePosts} \cup {<<a, b>> : a, b \in AnalyzePosts}

InitAnalyze ==
    /\ apiKey \in BOOLEAN
    /\ \/ exists = {INPUT_FILE} /\ cleanData \in AnalyzeStores
       \/ exists = {} /\ cleanData = <<>>
    /\ discoveredFile = <<>>
    /\ redditData = <<>>
    /\ sentimentFile = <<>>
    /\ runLog = <<>>
    /\ dashboardFile = <<>>
    /\ AnalyzeAtRest
    /\ aRuns = 0
    /\ lastContext = <<>>
    /\ aCompleted = <<>>
    /\ aTerminated = FALSE
    /\ OtherAtRest
    /\ world = <<>>
    /\ ScrapeAtRest
    /\ sRuns = 0
    /\ listing = [s \in {} |-> <<>>]
    /\ DiscoverAtRest
    /\ DashboardAtRest

NextAnalyze ==
    \/ AnalyzeStart
    \/ AnalyzeStep
    \/ AnalyzeFinish
    \/ AnalyzeKill

SpecAnalyze == InitAnalyze /\ [][NextAnalyze]_vars

\* Replies in a fetched thread.
MaxComments == 3

ScrapeBodies == {tOther, tDeleted, tRemoved, tEmpty}

\* The trees the Reddit API can return for a thread, every reply with any body.
RawThreads(postId) ==
    UNION { { RawThread(postId, "codex", tCodex, tEmpty, par, bodies) :
                par \in ParentFunctions(n), bodies \in [1..n -> ScrapeBodies] } :
            n \in 0..MaxComments }

\* A reference of discovered_urls.jsonl
Discovered(host, subredditName, postId) ==
    [url |-> RedditUrl(host, subredditName, postId), query |-> "reddit_api"]

\* discovered_urls.jsonl holds one reference, or three of which the first and
\* the last are different URLs of the same thread.
DiscoveredFiles ==
    { << Discovered("https://reddit.com", "codex", "p1") >>,
      << Discovered("https://reddit.com", "codex", "p1"),
         Discovered("https://reddit.com", "ClaudeCode", "p2"),
         Discovered("https://old.reddit.com", "codex", "p1") >> }

\* The threads are discovered and the API serves some tree for the first one.
InitContext ==
    /\ exists = {DISCOVERED_URLS_FILE}
    /\ discoveredFile \in DiscoveredFiles
    /\ \E t \in RawThreads("p1") :
          world = [p \in {"p1", "p2"} |->
                     IF p = "p1" THEN t
                     ELSE RawThread("p2", "ClaudeCode", tOther, tEmpty, <<>>, <<>>)]
    /\ redditData = <<>>
    /\ cleanData = <<>>
    /\ sentimentFile = <<>>
    /\ runLog = <<>>
    /\ dashboardFile = <<>>
    /\ apiKey = TRUE
    /\ AnalyzeAtRest
    /\ aRuns = 0
    /\ lastContext = <<>>
    /\ aCompleted = <<>>
    /\ aTerminated = FALSE
    /\ OtherAtRest
    /\ ScrapeAtRest
    /\ sRuns = 0
    /\ listing = [s \in {} |-> <<>>]
    /\ DiscoverAtRest
    /\ DashboardAtRest

NextContext ==
    \/ ScrapeStart
    \/ ScrapeStep
    \/ ScrapeFinish
    \/ ScrapeKill
    \/ ContextStep

SpecContext == InitContext /\ [][NextContext]_vars

----------------------------------------------------------------------------
\* Properties of the classification stage (SpecAnalyze)

ResultLines == {k \in 1..Len(sentimentFile) : Parses(sentimentFile[k])}

\* C1: sentiment_analysis.jsonl never holds two results with the same commentId,
\* whatever reddit_data_clean.jsonl holds and however the runs went.
C1_UniqueCommentId ==
    \A j, k \in ResultLines :
        j # k => Field(sentimentFile[j], "commentId") # Field(sentimentFile[k], "commentId")

\* C3: every result appended to sentiment_analysis.jsonl has a comparison that is
\* one of the 9 categories, for every answer that parses as a JSON object.
C3_CategoryClosure ==
    \A k \in ResultLines : Field(sentimentFile[k], "comparison") \in Categories

\* the thread-context blob of a reply, lower-cased, holds the keyword
BlobHas(comment, post, keyword) ==
    includes(toLowerCase(getThreadContext(comment, post.comments, post).fullText), keyword)

\* the candidates selected in this run and the replies sent to the classifier
Selected ==
    { [comment |-> candidateComments[k].comment, post |-> candidateComments[k].post] :
        k \in 1..Len(candidateComments) }
    \cup { [comment |-> batch[k].comment, post |-> batch[k].post] : k \in 1..ai }

\* C4 as stated: a selected reply has a blob that holds every REQUIRED keyword
\* of discovery, 'claude code' and 'codex'.
C4_RequiredKeywords ==
    \A e \in Selected :
        \A k \in 1..Len(REQUIRED_KEYWORDS) : BlobHas(e.comment, e.post, REQUIRED_KEYWORDS[k])

\* C4 amended: a reply that is a candidate, or is sent to the classifier, has a
\* blob that holds 'codex' and one of 'claude code', 'claude-code'.
C4_BothToolsMentioned ==
    \A e \in Selected :
        /\ BlobHas(e.comment, e.post, kwCodex)
        /\ \/ BlobHas(e.comment, e.post, kwClaudeCode)
           \/ BlobHas(e.comment, e.post, kwClaudeHyphenCode)

\* A batch is under way, a result is stored, and the store holds a reply whose
\* blob lacks a tool and that is no candidate.
C4_Witness ==
    /\ aPc = "batch"
    /\ ai >= 1
    /\ sentimentFile # <<>>
    /\ \E p \in 1..Len(cleanData) :
          \E c \in 1..Len(cleanData[p].comments) :
             /\ ~BlobHas(cleanData[p].comments[c], cleanData[p], kwCodex)
             /\ \A k \in 1..Len(candidateComments) :
                   candidateComments[k].comment # cleanData[p].comments[c]

----------------------------------------------------------------------------
\* Properties of the thread context (SpecContext)

\* C5: for a reply of depth d of a scraped thread, the chain of getThreadContext
\* has d+1 entries, entry i has depth i-1 and is the parent of entry i+1, the
\* first entry is a top-level reply and the last one is the target.
C5_ChainCorrect ==
    \A k \in 1..Len(lastContext) :
        LET chain == lastContext[k].context.commentChain
            target == lastContext[k].target
        IN  /\ Len(chain) = target.depth + 1
            /\ \A i \in 1..Len(chain) : chain[i].depth = i - 1
            /\ chain[Len(chain)] = target
            /\ chain[1].parentId = Null
            /\ \A i \in 2..Len(chain) : chain[i].parentId = chain[i - 1].id

\* A context was built for a nested reply of a thread in which the scraper
\* discarded a reply.
C5_Witness ==
    /\ lastContext # <<>>
    /\ lastContext[1].target.depth >= 1
    /\ \E k \in 1..Len(world["p1"].nodes) : SentinelBody(world["p1"].nodes[k].body)

----------------------------------------------------------------------------
\* Reddit discovery: initial states and specification

\* Items in the listing of the first subreddit.
MaxListing == 3

ListingItem(subredditName, postId, created, title, selftext) ==
    [ name |-> postId,
      permalink |-> <<"/r/", subredditName, "/comments/", postId, "/">>,
      title |-> title,
      selftext |-> selftext,
      created_utc |-> created ]

\* The items of r/ClaudeCode: inside or outside the window, with both keywords
\* (spread over title and selftext) or with 'claude-code' for 'claude code'.
ClaudeCodeItems ==
    { ListingItem("ClaudeCode", "p1", 3, tClaudeSpace, tCodex),
      ListingItem("ClaudeCode", "p1", 1, tClaudeSpace, tCodex),
      ListingItem("ClaudeCode", "p2", 3, tClaudeSpace \o <<" ">> \o tCodex, tEmpty),
      ListingItem("ClaudeCode", "p2", 3, tClaudeHyphen, tCodex) }

CodexListings ==
    { <<>>, << ListingItem("codex", "p1", 3, tCodex, tClaudeSpace) >> }

\* getNew lists the newest post first, and a post is the same wherever the
\* listing shows it.
NewestFirst(items) ==
    /\ \A j, k \in 1..Len(items) : j < k => items[j].created_utc >= items[k].created_utc
    /\ \A j, k \in 1..Len(items) : items[j].name = items[k].name => items[j] = items[k]

InitDiscover ==
    /\ listing \in { [ClaudeCode |-> a, codex |-> b, ChatGPTCoding |-> <<>>] :
                       a \in {l \in SeqsUpTo(ClaudeCodeItems, MaxListing) : NewestFirst(l)},
                       b \in CodexListings }
    /\ exists = {}
    /\ discoveredFile = <<>>
    /\ redditData = <<>>
    /\ cleanData = <<>>
    /\ sentimentFile = <<>>
    /\ runLog = <<>>
    /\ dashboardFile = <<>>
    /\ apiKey = TRUE
    /\ AnalyzeAtRest
    /\ aRuns = 0
    /\ lastContext = <<>>
    /\ aCompleted = <<>>
    /\ aTerminated = FALSE
    /\ OtherAtRest
    /\ world = <<>>
    /\ ScrapeAtRest
    /\ sRuns = 0
    /\ DiscoverAtRest
    /\ DashboardAtRest

NextDiscover ==
    \/ DiscoverStart
    \/ DiscoverPage
    \/ DiscoverKill

SpecDiscover == InitDiscover /\ [][NextDiscover]_vars

\* C2: a complete run of Reddit discovery that follows a complete run with the
\* same cutoff, the listings being the same and answering the same fetches,
\* appends no record to discovered_urls.jsonl.
C2_SecondRunAppendsNothing ==
    (dPc = "idle" /\ dDone /\ dSame) => dAppended = 0

\* A second complete run over a listing from which two records were discovered,
\* two pages of it read.
C2_Witness ==
    /\ dPc = "idle"
    /\ dDone
    /\ dSame
    /\ failing = {}
    /\ Len(discoveredFile) >= 2
    /\ Len(listing["ClaudeCode"]) > PAGE_LIMIT

----------------------------------------------------------------------------
\* The dashboard over a result file (SpecDashboard)

\* Results a result file holds.
MaxResults == 2

\* Lines of sentiment_analysis.jsonl as the classification stage writes them:
\* the comparison may be outside the enumeration or missing, the subreddit and
\* the score are missing from records of older threads.
SampleLines ==
    << [ commentId |-> "c1", postId |-> "p1", subreddit |-> "ClaudeCode",
         comparison |-> "claude_code_better", themes |-> <<"speed">>,
         quoteWorthy |-> TRUE, score |-> 5 ],
       [ commentId |-> "c2", postId |-> "p1", subreddit |-> "ClaudeCode",
         comparison |-> "codex_better", themes |-> <<"speed">>,
         quoteWorthy |-> FALSE, score |-> 0 ],
       [ commentId |-> "d1", postId |-> "p2", subreddit |-> "codex",
         comparison |-> "off_topic", themes |-> <<"price">>,
         quoteWorthy |-> FALSE, score |-> 1 ],
       [ commentId |-> "d2", postId |-> "p2", subreddit |-> "codex",
         comparison |-> "cursor_better", themes |-> <<>>,
         quoteWorthy |-> FALSE, score |-> 2 ],
       [ commentId |-> "d3", postId |-> "p2", themes |-> <<>>,
         quoteWorthy |-> FALSE ],
       CorruptLine >>

\* the lines of SampleLines at the positions of S, in order
RECURSIVE LinesAt(_, _)
LinesAt(S, from) ==
    IF from > Len(SampleLines) THEN <<>>
    ELSE (IF from \in S THEN <<SampleLines[from]>> ELSE <<>>) \o LinesAt(S, from + 1)

ResultFiles ==
    {LinesAt(S, 1) : S \in {T \in SUBSET (1..Len(SampleLines)) : Cardinality(T) <= MaxResults}}

Hostnames == {"localhost", "dashboard.example"}

InitDashboard ==
    /\ exists = {DASHBOARD_OUTPUT_FILE}
    /\ dashboardFile \in ResultFiles
    /\ discoveredFile = <<>>
    /\ redditData = <<>>
    /\ cleanData = <<>>
    /\ sentimentFile = <<>>
    /\ runLog = <<>>
    /\ apiKey = TRUE
    /\ AnalyzeAtRest
    /\ aRuns = 0
    /\ lastContext = <<>>
    /\ aCompleted = <<>>
    /\ aTerminated = FALSE
    /\ OtherAtRest
    /\ world = <<>>
    /\ ScrapeAtRest
    /\ sRuns = 0
    /\ listing = [s \in {} |-> <<>>]
    /\ DiscoverAtRest
    /\ hostname \in Hostnames
    /\ localStorage = NoItems
    /\ loading = TRUE
    /\ data = <<>>
    /\ ignoredComments = <<>>
    /\ ignoredThreads = <<>>
    /\ showIgnored = FALSE
    /\ adminMode = isLocal(hostname)
    /\ weightByUpvotes = FALSE
    /\ subredditFilter = "all"
    /\ themeFilter = "all"
    /\ lastToggle = <<>>

NextDashboard ==
    \/ Mount
    \/ LoadData
    \/ toggleIgnored
    \/ toggleThreadIgnored
    \/ ToggleShowIgnored
    \/ ToggleWeightByUpvotes
    \/ SelectSubreddit
    \/ SelectTheme

SpecDashboard == InitDashboard /\ [][NextDashboard]_vars

\* the members of a Set
Members(set) == {set[k] : k \in 1..Len(set)}

\* C6: preferClaudeCode + preferCodex + neutral + unclear = total, for every
\* loaded result file and every state of the subreddit, theme and ignore filters.
C6_GroupedSumIsTotal ==
    preferClaudeCode + preferCodex + neutral + unclear = total

\* C7 as stated: the categories whose tile shows a nonzero value are the same
\* with weightByUpvotes on as with it off.
C7_SameNonzeroCategories ==
    {c \in Categories : TileUpvotes(c) # 0} = {c \in Categories : TileCount(c) # 0}

\* C7 amended: a category whose tile shows a nonzero value with weightByUpvotes
\* on shows a nonzero value with it off; a tile shows the sum with the flag on
\* and the count with it off.
C7_WeightedWithinCounted ==
    /\ {c \in Categories : TileUpvotes(c) # 0} \subseteq {c \in Categories : TileCount(c) # 0}
    /\ \A c \in Categories :
          TileValue(c) = IF weightByUpvotes
                         THEN SumScores(OfComparison(c))
                         ELSE Len(OfComparison(c))

\* The weight flag is on, one tile shows a nonzero sum and another category has
\* results but a sum of 0.
C7_Witness ==
    /\ weightByUpvotes
    /\ \E c \in Categories : TileValue(c) # 0
    /\ \E c \in Categories : TileCount(c) # 0 /\ TileUpvotes(c) = 0

\* the positions of data that are in no ignored set
KeptPositions ==
    {k \in 1..Len(data) :
        /\ Field(data[k], "commentId") \notin Members(ignoredComments)
        /\ Field(data[k], "postId") \notin Members(ignoredThreads)}

\* C8: with showIgnored false, activeData is data without the results whose
\* commentId is in ignoredComments and without those whose postId is in
\* ignoredThreads, in the order of data; with showIgnored true it is data.
C8_ActiveData ==
    IF showIgnored
    THEN activeData = data
    ELSE /\ Len(activeData) = Cardinality(KeptPositions)
         /\ \A j \in 1..Len(activeData) :
               \E k \in KeptPositions :
                  /\ Cardinality({i \in KeptPositions : i <= k}) = j
                  /\ activeData[j] = data[k]

\* Ignored results are hidden: a thread is ignored, a result of it is missing
\* from activeData and a result of another thread is left.
C8_Witness ==
    /\ ~loading
    /\ ~showIgnored
    /\ \E k \in 1..Len(data) : has(ignoredThreads, data[k].postId)
    /\ activeData # <<>>
    /\ Len(activeData) < Len(data)

\* no result of activeData belongs to the thread
ThreadAbsent(postId) ==
    \A k \in 1..Len(activeData) : Field(activeData[k], "postId") # postId

\* C9 as stated: after a thread is ignored no result of it is in activeData and
\* data is what it was; after the thread is toggled again activeData is what it
\* was before the first toggle.
C9_IgnoreThread ==
    lastToggle # <<>> =>
        /\ data = lastToggle[1].data
        /\ ~lastToggle[1].restored => ThreadAbsent(lastToggle[1].postId)
        /\ lastToggle[1].restored => activeData = lastToggle[1].activeData

\* C9 amended: the results of an ignored thread are absent from activeData while
\* showIgnored is false, and the second toggle restores activeData as it was
\* under the same setting of showIgnored.
C9_IgnoreThreadWhileHiding ==
    lastToggle # <<>> =>
        /\ data = lastToggle[1].data
        /\ (~lastToggle[1].restored /\ ~showIgnored) => ThreadAbsent(lastToggle[1].postId)
        /\ (lastToggle[1].restored /\ showIgnored = lastToggle[1].showIgnored)
              => activeData = lastToggle[1].activeData

\* A thread with results was ignored while ignored results were hidden, then
\* restored, and ignored results are hidden again; a reply of another thread is
\* ignored all along.
C9_Witness ==
    /\ lastToggle # <<>>
    /\ lastToggle[1].restored
    /\ ~lastToggle[1].showIgnored
    /\ ~showIgnored
    /\ ignoredComments # <<>>
    /\ activeData # <<>>
    /\ \E k \in 1..Len(activeData) : activeData[k].postId = lastToggle[1].postId

\* C10: after each toggle the arrays stored under 'ignoredComments' and
\* 'ignoredThreads' hold the members of the current sets, so that the sets read
\* back on a reload are the sets held before it.
C10_StorageHoldsIgnoredSets ==
    /\ Members(LoadIgnored(localStorage, "ignoredComments")) = Members(ignoredComments)
    /\ Members(LoadIgnored(localStorage, "ignoredThreads")) = Members(ignoredThreads)

----------------------------------------------------------------------------
\* Properties of the thread records written by scraping (SpecContext)

\* the fetched reply a stored reply was made from
RawReply(post, reply) ==
    LET nodes == world[post.postId].nodes
    IN  nodes[CHOOSE k \in 1..Len(nodes) : nodes[k].id = reply.id]

\* C11: in every thread record of reddit_data.jsonl, a reply whose raw parent
\* reference points at the post has parentId null and depth 0, and no other reply
\* has either; every other reply has the id of a reply of the same record as
\* parentId, and that reply's depth + 1 as depth.
C11_ParentAndDepth ==
    \A p \in 1..Len(redditData) :
        \A c \in 1..Len(redditData[p].comments) :
            LET post == redditData[p]
                reply == post.comments[c]
            IN  IF RawReply(post, reply).parent_id.prefix = "t3_"
                THEN reply.parentId = Null /\ reply.depth = 0
                ELSE /\ reply.parentId # Null
                     /\ reply.depth # 0
                     /\ \E q \in 1..Len(post.comments) :
                           /\ post.comments[q].id = reply.parentId
                           /\ reply.depth = post.comments[q].depth + 1

\* A record was written for a thread in which a reply was discarded, with a
\* top-level reply, a reply to it and a reply to that one.
C11_Witness ==
    /\ redditData # <<>>
    /\ \E k \in 1..Len(world["p1"].nodes) : SentinelBody(world["p1"].nodes[k].body)
    /\ \E c \in 1..Len(redditData[1].comments) : redditData[1].comments[c].depth = 0
    /\ \E c \in 1..Len(redditData[1].comments) : redditData[1].comments[c].depth = 1

----------------------------------------------------------------------------
\* Properties of the classification runs (SpecAnalyze)

\* the start-up checks of main: the API key and the input file
StartupChecksPass == apiKey /\ INPUT_FILE \in exists

\* C12: an invocation that passes the start-up checks and runs to its end
\* appends exactly one entry to logs/runs.jsonl, also when it finds no candidate.
C12_OneRunLogEntry ==
    [][ /\ (aPc = "idle" /\ aRuns' = aRuns + 1 /\ StartupChecksPass /\ aPc' = "idle")
           => Len(runLog') = Len(runLog) + 1
        /\ (aPc = "batch" /\ ai = Len(batch) /\ aPc' = "idle" /\ runLog' # runLog)
           => Len(runLog') = Len(runLog) + 1 ]_vars

\* C13: in the batch loop a failed candidate adds one to errors and nothing to
\* sentiment_analysis.jsonl, a classified one adds one result and one to
\* analyzed, and the loop goes on: analyzed + errors is the number of candidates
\* attempted, and every entry of the run log has analyzedThisRun + errors equal
\* to the batch length.
C13_FailureCountedLoopGoesOn ==
    /\ [](aPc = "batch" => (ai <= Len(batch) /\ analyzed + errors = ai))
    /\ [](\A k \in 1..Len(runLog) :
            runLog[k].analyzedThisRun + runLog[k].errors
               = Min(runLog[k].batchSize,
                     runLog[k].totalCandidates - runLog[k].alreadyAnalyzed))
    /\ [][ (aPc = "batch" /\ ai' = ai + 1)
           => \/ /\ errors' = errors + 1
                 /\ analyzed' = analyzed
                 /\ sentimentFile' = sentimentFile
                 /\ aPc' = "batch"
              \/ /\ errors' = errors
                 /\ analyzed' = analyzed + 1
                 /\ Len(sentimentFile') = Len(sentimentFile) + 1
                 /\ sentimentFile'[Len(sentimentFile')].commentId = batch[ai + 1].comment.id
                 /\ aPc' = "batch" ]_vars

\* A run ended in which the first candidate failed and a later one was
\* classified.
C13_Witness ==
    /\ runLog # <<>>
    /\ runLog[1].errors >= 1
    /\ runLog[1].analyzedThisRun >= 1
    /\ Len(cleanData) = 1
    /\ sentimentFile # <<>>
    /\ sentimentFile[1].commentId = cleanData[1].comments[2].id

\* the replies of the store, as <<thread position, reply position>>
StorePositions ==
    UNION { {<<p, c>> : c \in 1..Len(cleanData[p].comments)} : p \in 1..Len(cleanData) }

\* encounter order: thread order in the store, then reply order in the thread
Before(x, y) == x[1] < y[1] \/ (x[1] = y[1] /\ x[2] < y[2])

\* the replies that have no result at the start of the run and whose blob
\* mentions both tools
EligiblePositions ==
    {x \in StorePositions :
        LET post == cleanData[x[1]]
            comment == post.comments[x[2]]
        IN  /\ comment.id \notin analyzedIds
            /\ BlobHas(comment, post, kwCodex)
            /\ BlobHas(comment, post, kwClaudeCode) \/ BlobHas(comment, post, kwClaudeHyphenCode)}

Rank(x, among) == Cardinality({y \in among : Before(y, x) \/ y = x})

\* C14: the batch of a run is the first min(BATCH_SIZE, number of candidates)
\* candidates in encounter order; only replies of the batch are sent, so a run
\* appends at most BATCH_SIZE results, each for a reply of the batch.
C14_FirstNInEncounterOrder ==
    /\ aPc = "batch" =>
          LET eligible == EligiblePositions
          IN  /\ Len(candidateComments) = Cardinality(eligible)
              /\ Len(batch) = IF Cardinality(eligible) < BATCH_SIZE
                              THEN Cardinality(eligible)
                              ELSE BATCH_SIZE
              /\ \A x \in eligible :
                    Rank(x, eligible) <= Len(batch) =>
                       /\ batch[Rank(x, eligible)].comment = cleanData[x[1]].comments[x[2]]
                       /\ batch[Rank(x, eligible)].post = cleanData[x[1]]
              /\ analyzed <= ai
              /\ ai <= Len(batch)
              /\ \A k \in (Len(sentimentFile) - analyzed + 1)..Len(sentimentFile) :
                    \E j \in 1..ai : batch[j].comment.id = sentimentFile[k].commentId
    /\ \A k \in 1..Len(runLog) : runLog[k].analyzedThisRun <= runLog[k].batchSize

\* A batch was worked through that left candidates for a later invocation.
C14_Witness ==
    /\ aPc = "batch"
    /\ Len(candidateComments) > BATCH_SIZE
    /\ ai = Len(batch)
    /\ analyzed >= 1

----------------------------------------------------------------------------
\* Properties of the loaders (SpecDashboard)

\* C15: a line that does not parse is skipped and the scan goes on, so the load
\* of the result file goes through whatever lines the file holds: while the page
\* is loading, the load can complete.
C15_CorruptLineSkipped ==
    loading => ENABLED LoadData

----------------------------------------------------------------------------
\* Properties of the scraping runs (SpecContext)

\* C16: in the scrape loop a reference whose fetch fails adds one to the error
\* count of the run, appends no record, and the loop goes on.
C16_FetchErrorCounted ==
    [][ ( /\ sPc = "loop"
          /\ si' = si + 1
          /\ extractPostId(discoveredURLs[si + 1].url) # Null
          /\ extractPostId(discoveredURLs[si + 1].url) \notin scrapedPostIds
          /\ redditData' = redditData )
        => (sErrors' = sErrors + 1 /\ sPc' = "loop") ]_vars

----------------------------------------------------------------------------
\* Properties of the discovery runs (SpecDiscover)

\* the urls of discovered_urls.jsonl
DiscoveredUrls == {discoveredFile[k].url : k \in 1..Len(discoveredFile)}

\* C17: a page fetch that throws ends the pagination of its subreddit at once,
\* nothing is taken from discovered_urls.jsonl, and the subreddits after it are
\* still gone through: at the end of the run the matching posts of r/codex are
\* in the file unless the fetch of r/codex itself threw.
C17_FetchErrorStopsOneGroup ==
    /\ [][ (dPc = "loop" /\ <<dSub, dAfter>> \in failing /\ dPc' # "idle")
           => /\ discoveredFile' = discoveredFile
              /\ dSub' = dSub + 1
              /\ dAfter' = 0
              /\ dPc' = "loop" ]_vars
    /\ [][ (dPc = "loop" /\ <<dSub, dAfter>> \in failing /\ dPc' = "idle")
           => /\ discoveredFile' = discoveredFile
              /\ (dDone' => dSub = Len(SUBREDDITS)) ]_vars
    /\ [][ Len(discoveredFile') >= Len(discoveredFile)
           /\ SubSeq(discoveredFile', 1, Len(discoveredFile)) = discoveredFile ]_vars
    /\ []( (dPc = "idle" /\ dDone /\ <<2, 0>> \notin failing) =>
             \A k \in 1..Len(listing["codex"]) :
                ( /\ k <= PAGE_LIMIT
                  /\ \A j \in 1..k : listing["codex"][j].created_utc >= cutoffTimestamp
                  /\ matchesKeywords(listing["codex"][k].title \o <<" ">>
                                     \o listing["codex"][k].selftext) )
                => (<<"https://reddit.com">> \o listing["codex"][k].permalink)
                      \in DiscoveredUrls )

\* A run ended in which the fetch of the second page of r/ClaudeCode threw after
\* a post of the first page was appended, and the post of r/codex was appended.
C17_Witness ==
    /\ dPc = "idle"
    /\ dDone
    /\ failing = {<<1, PAGE_LIMIT>>}
    /\ Len(listing["ClaudeCode"]) > PAGE_LIMIT
    /\ Len(discoveredFile) = 2
    /\ discoveredFile[1].subreddit = "ClaudeCode"
    /\ discoveredFile[2].subreddit = "codex"

\* the denominator of the clear-preference percentages
ClearPreferenceDenominator ==
    IF weightByUpvotes THEN claudeCodeUpvotes + codexUpvotes ELSE totalLabeled

IsZeroNumber(x) == x.kind = "finite" /\ x.num = 0

\* C18: each percentage of the clear-preference panel is a number, and is 0 when
\* its denominator is 0, with weightByUpvotes off and with it on.
C18_ZeroWhenNothingLabeled ==
    ~loading =>
        /\ PreferClaudeCodeShown.kind = "finite"
        /\ PreferCodexShown.kind = "finite"
        /\ ClearPreferenceDenominator = 0 =>
              (IsZeroNumber(PreferClaudeCodeShown) /\ IsZeroNumber(PreferCodexShown))

\* C19: when a classification run is terminated, every result a classifier call
\* of that run returned, except at most the last, is a line of
\* sentiment_analysis.jsonl; and the invocation that follows a terminated one
\* issues no classifier call for a reply whose result is in the file.
C19_TerminationSafe ==
    /\ \A k \in 1..(Len(aCompleted) - 1) :
          \E j \in 1..Len(sentimentFile) : sentimentFile[j] = aCompleted[k]
    /\ (aTerminated /\ aPc = "batch" /\ ai < Len(batch))
          => batch[ai + 1].comment.id \notin loadAnalyzedComments(sentimentFile)

\* C20: reddit_data.jsonl never holds two thread records with the same postId,
\* whatever runs were made and wherever they were terminated, also when two
\* references with different URLs name the same thread; and no run asks the
\* Reddit API for a thread whose record is in the file.
C20_OneRecordPerPost ==
    /\ [](\A j, k \in 1..Len(redditData) :
            j # k => Field(redditData[j], "postId") # Field(redditData[k], "postId"))
    /\ [][ \A p \in sFetched' \ sFetched :
             \A k \in 1..Len(redditData) : Field(redditData[k], "postId") # p ]_vars

\* The second run has gone past both URLs of a thread that an earlier run stored:
\* it skipped both and fetched only the other thread.
C20_Witness ==
    /\ sRuns = 2
    /\ sPc = "loop"
    /\ si = 3
    /\ extractPostId(discoveredURLs[1].url) = extractPostId(discoveredURLs[3].url)
    /\ discoveredURLs[1].url # discoveredURLs[3].url
    /\ Len(redditData) = 2
    /\ sSkipped = 2
    /\ sFetched = {"p2"}

\* C22: on a host other than localhost and 127.0.0.1 no step of the dashboard
\* changes ignoredComments, ignoredThreads or showIgnored.
C22_CurationOnlyLocal ==
    [][ hostname \notin {"localhost", "127.0.0.1"}
        => UNCHANGED <<ignoredComments, ignoredThreads, showIgnored>> ]_vars

\* The page runs on another host, has loaded results that have cards, and the
\* visitor has used a control.
C22_Witness ==
    /\ hostname \notin {"localhost", "127.0.0.1"}
    /\ ~loading
    /\ ~adminMode
    /\ Cards # {}
    /\ weightByUpvotes
    /\ subredditFilter # "all"

FetchedPage ==
    LET all == listing[SUBREDDITS[dSub]]
    IN  SubSeq(all, dAfter + 1, Min(dAfter + PAGE_LIMIT, Len(all)))

\* the items of the fetched page the per-item loop reaches with a creation time
\* inside the window: those before the first item older than the cutoff
ReachedInWindow ==
    {k \in 1..Len(FetchedPage) :
        \A j \in 1..k : FetchedPage[j].created_utc >= cutoffTimestamp}

ItemUrl(post) == <<"https://reddit.com">> \o post.permalink

\* title + ' ' + selftext holds 'claude code' and 'codex', whatever the case
HoldsAllKeywords(post) ==
    LET lower == toLowerCase(post.title \o <<" ">> \o post.selftext)
    IN  includes(lower, kwClaudeCode) /\ includes(lower, kwCodex)

\* C24: in a turn of the pagination loop that fetches a page, for every url of an
\* item of the page exactly one reference with that url is appended when an item
\* with it is reached inside the window, holds all keywords and the url is not in
\* discovered_urls.jsonl, and none is appended otherwise; nothing else is
\* appended.
C24_OneReferencePerMatch ==
    [][ ( /\ dPc = "loop"
          /\ <<dSub, dAfter>> \notin failing
          /\ ~(dPc' = "idle" /\ ~dDone') )
        => LET before == {Field(discoveredFile[k], "url") : k \in 1..Len(discoveredFile)}
               added == SubSeq(discoveredFile', Len(discoveredFile) + 1, Len(discoveredFile'))
               Wanted(u) == /\ u \notin before
                            /\ \E k \in ReachedInWindow :
                                  /\ ItemUrl(FetchedPage[k]) = u
                                  /\ HoldsAllKeywords(FetchedPage[k])
           IN  /\ SubSeq(discoveredFile', 1, Len(discoveredFile)) = discoveredFile
               /\ \A k \in 1..Len(added) :
                     \E j \in 1..Len(FetchedPage) : added[k].url = ItemUrl(FetchedPage[j])
               /\ \A j \in 1..Len(FetchedPage) :
                     LET u == ItemUrl(FetchedPage[j])
                     IN  Cardinality({k \in 1..Len(added) : added[k].url = u})
                         = IF Wanted(u) THEN 1 ELSE 0 ]_vars

\* A run has read a first page of r/ClaudeCode that held a post with both
\* keywords and a post with 'claude-code' for 'claude code', both inside the
\* window, and has appended one reference.
C24_Witness ==
    /\ dPc = "loop"
    /\ dSub = 1
    /\ dAfter = PAGE_LIMIT
    /\ dAppended = 1
    /\ Len(discoveredFile) = 1
    /\ \E k \in 1..PAGE_LIMIT : /\ listing["ClaudeCode"][k].created_utc >= cutoffTimestamp
                                /\ ~HoldsAllKeywords(listing["ClaudeCode"][k])
    /\ \E k \in 1..PAGE_LIMIT : ItemUrl(listing["ClaudeCode"][k]) = discoveredFile[1].url

\* C28: in a classification run the classifier calls are made one after the
\* other, and when a call is about to be made after an earlier call of the run,
\* the fixed delay has run since that earlier call, whether it succeeded or
\* failed.
C28_DelayBetweenRequests ==
    (aPc = "batch" /\ 0 < ai /\ ai < Len(batch)) => aSlept

----------------------------------------------------------------------------
\* Repeated classification over a fixed store (SpecRepeat)

\* The stores of the repeated runs: those of AnalyzeStores, and the store that
\* filter-clean leaves when it runs after one thread was scraped and again after
\* a second one was; each can be gone through in MaxRuns invocations.
RepeatStores ==
    { store \in AnalyzeStores
                \cup {<<a, a, b>> : a \in {x \in AnalyzePosts : x.postId = "p1"},
                                    b \in {x \in AnalyzePosts : x.postId = "p2"}} :
        Len(FindCandidates(store, {})) <= BATCH_SIZE * MaxRuns }

InitRepeat ==
    /\ apiKey = TRUE
    /\ exists = {INPUT_FILE}
    /\ cleanData \in RepeatStores
    /\ discoveredFile = <<>>
    /\ redditData = <<>>
    /\ sentimentFile = <<>>
    /\ runLog = <<>>
    /\ dashboardFile = <<>>
    /\ AnalyzeAtRest
    /\ aRuns = 0
    /\ lastContext = <<>>
    /\ aCompleted = <<>>
    /\ aTerminated = FALSE
    /\ OtherAtRest
    /\ world = <<>>
    /\ ScrapeAtRest
    /\ sRuns = 0
    /\ listing = [s \in {} |-> <<>>]
    /\ DiscoverAtRest
    /\ DashboardAtRest

\* An iteration of the batch loop whose classifier call succeeds.
AnalyzeStepOk == AnalyzeStep /\ analyzed' = analyzed + 1

NextRepeat ==
    \/ AnalyzeStart
    \/ AnalyzeStepOk
    \/ AnalyzeFinish

\* Every invocation runs to its end, and another one follows.
SpecRepeat == InitRepeat /\ [][NextRepeat]_vars /\ WF_vars(NextRepeat)

\* the ids of the eligible replies of the store
EligibleIds ==
    LET all == AllReplies(cleanData)
    IN  {all[k].comment.id : k \in {j \in 1..Len(all) :
                                      mentionsBothTools(all[j].context.fullText)}}

StoredIds == {Field(sentimentFile[k], "commentId") : k \in 1..Len(sentimentFile)}

AllClassified == EligibleIds \subseteq StoredIds

----------------------------------------------------------------------------
\* The functions of the pipeline applied to inputs (SpecFunctions)

\* Pieces of a probed text.
MaxPieces == 3

TextPieces == {tClaudeSpace, tClaudeHyphen, tCodex, tOther, <<" ">>}

ProbeTexts == {Flatten(pieces) : pieces \in SeqsUpTo(TextPieces, MaxPieces)}

probeFrame == <<fileVars, analyzeVars, scrapeVars, discoverVars, dashVars,
                redditCredentials, fRuns, classifierFails>>

\* A behaviour of SpecFunctions is one call.  Here matchesKeywords
\* (discover-reddit.ts) and mentionsBothTools (analyze.ts) are called on the same
\* text.
ProbeKeywords ==
    /\ probe = <<>>
    /\ \E text \in ProbeTexts :
          probe' = << [ fn |-> "keywords",
                        text |-> text,
                        matchesKeywords |-> matchesKeywords(text),
                        mentionsBothTools |-> mentionsBothTools(text) ] >>
    /\ UNCHANGED probeFrame

\* Tokens of the prose before and after the object of a response.
MaxProse == 2

\* Prose is words and braces.
ProseTokens == {"prose", "{", "}"}

\* The members of an object that conforms to the schema.
ConformingMembers == {m \in MemberTokens : MemberValue(m) \in Categories}

\* A response that holds one conforming object: prose, the object with or
\* without a code fence around it, prose.
Response(pre, fenced, member, post) ==
    pre \o (IF fenced THEN <<"<fence>">> ELSE <<>>)
        \o <<"{", member, "}">>
        \o (IF fenced THEN <<"<fence>">> ELSE <<>>)
        \o post

ProbePost == ScrapedPost(RawThread("p1", "codex", tCodex, tEmpty, <<0>>, <<tClaudeSpace>>))

\* analyzeSentiment is called and the classifier answers with such a response.
ProbeResponse ==
    /\ probe = <<>>
    /\ \E pre \in SeqsUpTo(ProseTokens, MaxProse), post \in SeqsUpTo(ProseTokens, MaxProse),
          fenced \in BOOLEAN, member \in ConformingMembers :
          LET comment == ProbePost.comments[1]
              context == getThreadContext(comment, ProbePost.comments, ProbePost)
              text == Response(pre, fenced, member, post)
          IN  probe' = << [ fn |-> "response",
                            pre |-> pre,
                            fenced |-> fenced,
                            member |-> member,
                            post |-> post,
                            result |-> analyzeSentiment(context, comment, ProbePost,
                                                        [type |-> "text", text |-> text]) ] >>
    /\ UNCHANGED probeFrame

\* A pagination that stops after the first page.
discoverFirstPageOnly(all, after, urls, cutoff, subredditName) ==
    ProcessPage(SubSeq(all, after + 1, Min(after + PAGE_LIMIT, Len(all))), urls, cutoff,
                subredditName).appended

\* discoverFromSubreddit when no fetch throws: the records it appends, the
\* pagination starting after `after` items with the urls `urls` known.
RECURSIVE discoverFromSubreddit(_, _, _, _, _)
discoverFromSubreddit(all, after, urls, cutoff, subredditName) ==
    LET page == SubSeq(all, after + 1, Min(after + PAGE_LIMIT, Len(all)))
    IN  IF page = <<>> THEN <<>>
        ELSE LET done == ProcessPage(page, urls, cutoff, subredditName)
             IN  IF done.reachedCutoff THEN done.appended
                 ELSE done.appended
                      \o discoverFromSubreddit(all, after + Len(page), done.urls, cutoff,
                                               subredditName)

\* The listings of r/ClaudeCode in any order, a post being the same wherever
\* the listing shows it.
ProbeListings ==
    {l \in SeqsUpTo(ClaudeCodeItems, MaxListing) :
        \A j, k \in 1..Len(l) : l[j].name = l[k].name => l[j] = l[k]}

\* discoverFromSubreddit is called on a listing with an empty discovered_urls.jsonl.
ProbeListing ==
    /\ probe = <<>>
    /\ \E all \in ProbeListings, cutoff \in Cutoffs :
          probe' = << [ fn |-> "listing",
                        listing |-> all,
                        cutoff |-> cutoff,
                        appended |-> discoverFromSubreddit(all, 0, {}, cutoff,
                                                           "ClaudeCode") ] >>
    /\ UNCHANGED probeFrame

\* (d.score || 0) for sortBy 'upvotes', d.analyzedAt otherwise
SortKey(d, by) ==
    IF by = "upvotes"
    THEN (IF "score" \in DOMAIN d THEN d.score ELSE 0)
    ELSE d.analyzedAt

\* A sort that puts a result before the results of the same key met earlier.
RECURSIVE sortTiesReversed(_, _)
sortTiesReversed(array, by) ==
    IF array = <<>> THEN <<>>
    ELSE LET rest == sortTiesReversed(SubSeq(array, 1, Len(array) - 1), by)
             d == array[Len(array)]
             Ahead(x) == SortKey(x, by) > SortKey(d, by)
             Behind(x) == SortKey(x, by) <= SortKey(d, by)
         IN  SelectSeq(rest, Ahead) \o <<d>> \o SelectSeq(rest, Behind)

\* [...filteredData].sort((a, b) => key(b) - key(a)): Array.prototype.sort is
\* stable, so a result goes after the results met earlier whose key is not
\* smaller.
RECURSIVE sortData(_, _)
sortData(array, by) ==
    IF array = <<>> THEN <<>>
    ELSE LET rest == sortData(SubSeq(array, 1, Len(array) - 1), by)
             d == array[Len(array)]
             Ahead(x) == SortKey(x, by) >= SortKey(d, by)
             Behind(x) == SortKey(x, by) < SortKey(d, by)
         IN  SelectSeq(rest, Ahead) \o <<d>> \o SelectSeq(rest, Behind)

SortIds == <<"c1", "c2", "c3", "c4">>

\* Results as the list holds them after the filters: the score is missing, 0 or
\* positive, analyzedAt is one of two times.
SortItems(k) ==
    {[commentId |-> SortIds[k], analyzedAt |-> t] : t \in {1, 2}}
    \cup {[commentId |-> SortIds[k], score |-> n, analyzedAt |-> t] :
            n \in {0, 5}, t \in {1, 2}}

SortInputs ==
    UNION { {f \in [1..n -> UNION {SortItems(k) : k \in 1..n}] :
                \A k \in 1..n : f[k] \in SortItems(k)} : n \in 0..(MaxResults + 1) }

\* The list is rendered with sortBy 'upvotes' or 'time'.
ProbeSort ==
    /\ probe = <<>>
    /\ \E filteredData \in SortInputs, sortBy \in {"upvotes", "time"} :
          probe' = << [ fn |-> "sort",
                        filteredData |-> filteredData,
                        sortBy |-> sortBy,
                        sorted |-> sortData(filteredData, sortBy) ] >>
    /\ UNCHANGED probeFrame

\* The reply lists of the walk: a tree of replies flattened by the scraper, and
\* the same list with some replies gone, which leaves replies whose parentId
\* matches nothing.
WalkLists ==
    UNION { { SelectSeq(ScrapedPost(RawThread("p1", "codex", tCodex, tEmpty, par,
                                              [k \in 1..n |-> tOther])).comments,
                        LAMBDA c : c.id \notin gone) :
                par \in ParentFunctions(n),
                gone \in SUBSET Members(SubSeq(CommentIdsOf("p1"), 1, n)) } :
            n \in 1..MaxComments }

\* The parent walk of getThreadContext is run for a reply of a list.
ProbeWalk ==
    /\ probe = <<>>
    /\ \E allComments \in WalkLists :
          \E c \in 1..Len(allComments) :
             probe' = << [ fn |-> "walk",
                           comment |-> allComments[c],
                           allComments |-> allComments,
                           walk |-> WalkUp(<<allComments[c]>>, allComments, <<>>,
                                           Len(allComments) + 1) ] >>
    /\ UNCHANGED probeFrame

InitFunctions ==
    /\ exists = {}
    /\ discoveredFile = <<>>
    /\ redditData = <<>>
    /\ cleanData = <<>>
    /\ sentimentFile = <<>>
    /\ runLog = <<>>
    /\ dashboardFile = <<>>
    /\ apiKey = TRUE
    /\ AnalyzeAtRest
    /\ aRuns = 0
    /\ lastContext = <<>>
    /\ aCompleted = <<>>
    /\ aTerminated = FALSE
    /\ OtherAtRest
    /\ world = <<>>
    /\ ScrapeAtRest
    /\ sRuns = 0
    /\ listing = [s \in {} |-> <<>>]
    /\ DiscoverAtRest
    /\ DashboardAtRest

NextFunctions ==
    \/ ProbeKeywords
    \/ ProbeResponse
    \/ ProbeListing
    \/ ProbeSort
    \/ ProbeWalk

SpecFunctions == InitFunctions /\ [][NextFunctions]_vars

Probed(fn) == probe # <<>> /\ probe[1].fn = fn

\* C30 as stated: mentionsBothTools and matchesKeywords give the same answer on
\* every text.
C30_SamePredicate ==
    Probed("keywords") => probe[1].mentionsBothTools = probe[1].matchesKeywords

\* C30: mentionsBothTools holds of a text exactly when matchesKeywords holds of
\* it or the text holds, whatever the case, 'claude-code' and 'codex'.
C30_SamePredicateOrHyphen ==
    Probed("keywords") =>
        LET lower == toLowerCase(probe[1].text)
        IN  probe[1].mentionsBothTools
            = ( \/ probe[1].matchesKeywords
                \/ (includes(lower, kwClaudeHyphenCode) /\ includes(lower, kwCodex)) )

\* Both were called on a text with 'claude-code' and 'codex' and disagreed.
C30_Witness ==
    /\ Probed("keywords")
    /\ probe[1].mentionsBothTools
    /\ ~probe[1].matchesKeywords

Holds(text, token) == \E k \in 1..Len(text) : text[k] = token

AppendedUrls == {probe[1].appended[k].url : k \in 1..Len(probe[1].appended)}

\* the urls of the items of the probed listing that are inside the window and
\* hold all keywords, every item being checked on its own
IndividuallyChecked ==
    LET all == probe[1].listing
    IN  {ItemUrl(all[k]) : k \in {j \in 1..Len(all) :
                                    /\ all[j].created_utc >= probe[1].cutoff
                                    /\ HoldsAllKeywords(all[j])}}

\* C29 as stated: for every listing content the references appended are those
\* of the items that pass the time check one by one.
C29_EarlyExitChangesNothing ==
    Probed("listing") => AppendedUrls = IndividuallyChecked

\* C29: the references appended are among those of the items that pass the time
\* check one by one, and are exactly those when the listing is ordered newest
\* first.
C29_EarlyExitOnOrderedListing ==
    Probed("listing") =>
        LET all == probe[1].listing
            ordered == \A j, k \in 1..Len(all) :
                          j < k => all[j].created_utc >= all[k].created_utc
        IN  /\ AppendedUrls \subseteq IndividuallyChecked
            /\ ordered => AppendedUrls = IndividuallyChecked

\* Discovery went through a listing ordered newest first, longer than a page,
\* appended a reference and left at an item older than the cutoff.
C29_Witness ==
    /\ Probed("listing")
    /\ Len(probe[1].listing) > PAGE_LIMIT
    /\ \A j, k \in 1..Len(probe[1].listing) :
          j < k => probe[1].listing[j].created_utc >= probe[1].listing[k].created_utc
    /\ probe[1].listing[Len(probe[1].listing)].created_utc < probe[1].cutoff
    /\ probe[1].listing[1].created_utc >= probe[1].cutoff
    /\ probe[1].appended # <<>>

----------------------------------------------------------------------------
\* The stages run one after the other on the same files (SpecPipeline)

\* r/codex lists a thread that matches; r/ClaudeCode lists nothing or another one.
PipelineListings ==
    { [ ClaudeCode |-> a,
        codex |-> << ListingItem("codex", "p1", 3, tCodex, tClaudeSpace) >>,
        ChatGPTCoding |-> <<>> ] :
        a \in { <<>>,
                << ListingItem("ClaudeCode", "p2", 3,
                               tClaudeSpace \o <<" ">> \o tCodex, tEmpty) >> } }

\* Each listed thread has a reply and a reply to it, both eligible.
PipelineWorld ==
    [ p \in PostIds |->
        IF p = "p1"
        THEN RawThread("p1", "codex", tCodex, tEmpty, <<0, 1>>, <<tClaudeSpace, tOther>>)
        ELSE RawThread("p2", "ClaudeCode", tOther, tCodex, <<0, 1>>,
                       <<tClaudeSpace, tOther>>) ]

\* No file exists yet; each credential is set or missing.
InitPipeline ==
    /\ apiKey \in BOOLEAN
    /\ redditCredentials \in BOOLEAN
    /\ listing \in PipelineListings
    /\ world = PipelineWorld
    /\ exists = {}
    /\ discoveredFile = <<>>
    /\ redditData = <<>>
    /\ cleanData = <<>>
    /\ sentimentFile = <<>>
    /\ runLog = <<>>
    /\ dashboardFile = <<>>
    /\ AnalyzeAtRest
    /\ aRuns = 0
    /\ lastContext = <<>>
    /\ aCompleted = <<>>
    /\ aTerminated = FALSE
    /\ fRuns = 0
    /\ probe = <<>>
    /\ classifierFails = {}
    /\ ScrapeAtRest
    /\ sRuns = 0
    /\ DiscoverAtRest
    /\ DashboardAtRest

\* No stage is running.
Quiet == aPc = "idle" /\ sPc = "idle" /\ dPc = "idle"

\* Scraping, filtering and classification are started once each and MaxRuns - 1
\* more times between them.
MayStart == Quiet /\ sRuns + fRuns + aRuns < MaxRuns + 2

\* A discovery run of the pipeline: the cutoff is the first one, and the only
\* fetch that can throw is that of r/codex.
PipelineDiscoverStart ==
    /\ Quiet
    /\ DiscoverStart
    /\ cutoffTimestamp' \in {cutoffTimestamp, MinOf(Cutoffs)}
    /\ failing' \subseteq {<<2, 0>>}

\* An iteration of the batch loop in the pipeline: the call throws, or the
\* answer is a plain object.
PipelineAnalyzeStep ==
    /\ AnalyzeStep
    /\ \/ sentimentFile' = sentimentFile
       \/ Field(sentimentFile'[Len(sentimentFile')], "comparison") = "codex_better"

NextPipeline ==
    \/ PipelineDiscoverStart
    \/ DiscoverPage
    \/ (MayStart /\ ScrapeStart)
    \/ ScrapeStep
    \/ ScrapeFinish
    \/ (MayStart /\ FilterClean)
    \/ (MayStart /\ AnalyzeStart)
    \/ PipelineAnalyzeStep
    \/ AnalyzeFinish
    \/ AnalyzeKill
    \/ ScrapeKill
    \/ DiscoverKill

SpecPipeline == InitPipeline /\ [][NextPipeline]_vars


\* C21: In every stage a missing credential or a missing upstream file stops the
\* process at its start.  While the Reddit credentials are missing neither
\* Discovery nor Scraping ever enters its loop, no thread is asked for and
\* discovered_urls.jsonl and reddit_data.jsonl get no line; while the API key is
\* missing Classification never enters its batch loop, no classifier call
\* returns and sentiment_analysis.jsonl and the run log get no line.  A start of
\* Scraping without discovered_urls.jsonl, a start of Classification without
\* reddit_data_clean.jsonl and a start of the cleaning step without one of its
\* two inputs leave the process at rest and every file as it was.
C21_StopsAtStageStart ==
    /\ [](~redditCredentials =>
            /\ dPc = "idle" /\ sPc = "idle" /\ sFetched = {}
            /\ discoveredFile = <<>> /\ redditData = <<>>)
    /\ [](~apiKey =>
            /\ aPc = "idle" /\ aCompleted = <<>>
            /\ sentimentFile = <<>> /\ runLog = <<>>)
    /\ [][(sPc = "idle" /\ sRuns' = sRuns + 1 /\ DISCOVERED_URLS_FILE \notin exists)
            => (sPc' = "idle" /\ sFetched' = {} /\ UNCHANGED fileVars)]_vars
    /\ [][(aPc = "idle" /\ aRuns' = aRuns + 1 /\ INPUT_FILE \notin exists)
            => (aPc' = "idle" /\ aCompleted' = <<>> /\ UNCHANGED fileVars)]_vars
    /\ [][(fRuns' = fRuns + 1
            /\ (DISCOVERED_URLS_FILE \notin exists \/ REDDIT_DATA_FILE \notin exists))
            => UNCHANGED fileVars]_vars

\* Classification has been started without the API key while the cleaned posts
\* it would read are on disk.
C21_Witness ==
    /\ ~apiKey
    /\ aRuns >= 1
    /\ INPUT_FILE \in exists
    /\ cleanData # <<>>


\* the lines of `before` are the first lines of `after`, in the same order, and
\* every line added after them is a complete record
AppendedTo(before, after) ==
    /\ Len(after) >= Len(before)
    /\ SubSeq(after, 1, Len(before)) = before
    /\ \A k \in (Len(before) + 1)..Len(after) : Parses(after[k])

\* C26: Whatever Discovery, Scraping and Classification do in a step, failed
\* fetches, failed classifier calls and terminated runs included, the lines
\* already in discovered_urls.jsonl, reddit_data.jsonl and
\* sentiment_analysis.jsonl stay where they were, unchanged and in order, and
\* what the step adds to a store is complete records after them.
C26_WritesOnlyAppend ==
    [][/\ AppendedTo(discoveredFile, discoveredFile')
       /\ AppendedTo(redditData, redditData')
       /\ AppendedTo(sentimentFile, sentimentFile')]_vars

\* A classification run with a failed call is appending to a store that already
\* holds a line, the two upstream stores holding lines as well.
C26_Witness ==
    /\ aPc = "batch"
    /\ errors >= 1
    /\ Len(sentimentFile) >= 2
    /\ redditData # <<>>
    /\ discoveredFile # <<>>


\* the positions of activeData the subreddit filter lets through
InSubreddit ==
    {k \in 1..Len(activeData) :
        subredditFilter = "all" \/ Field(activeData[k], "subreddit") = subredditFilter}

\* the positions of InSubreddit the theme filter lets through
InTheme ==
    {k \in InSubreddit :
        themeFilter = "all" \/ \E j \in 1..Len(activeData[k].themes) :
                                   activeData[k].themes[j] = themeFilter}

\* C31: The theme tags offered as filters and their counts come from the results
\* the subreddit filter lets through, whatever the theme filter is, so a step
\* that changes only the theme filter leaves both as they were; the total and
\* the count of every category come from the results that pass the subreddit
\* filter and then the theme filter.
C31_ThemesIgnoreThemeFilter ==
    /\ [][(/\ themeFilter' # themeFilter
           /\ UNCHANGED <<data, ignoredComments, ignoredThreads, showIgnored,
                          subredditFilter>>)
          => /\ topThemes' = topThemes
             /\ \A t \in topThemes : themeCount(t)' = themeCount(t)]_vars
    /\ [](/\ topThemes = UNION { Members(activeData[k].themes) : k \in InSubreddit }
          /\ \A t \in topThemes :
                themeCount(t) = Cardinality({k \in InSubreddit :
                                                t \in Members(activeData[k].themes)})
          /\ total = Cardinality(InTheme)
          /\ \A c \in Categories :
                Len(OfComparison(c))
                    = Cardinality({k \in InTheme : Field(activeData[k], "comparison") = c}))

\* A theme is selected that one of two loaded results does not have, so the
\* statistics cover one result while the tags of both stay on offer.
C31_Witness ==
    /\ ~loading
    /\ themeFilter # "all"
    /\ Cardinality(topThemes) = 2
    /\ Len(subredditFilteredData) = 2
    /\ total = 1


\* C37: While a subreddit button other than All Subreddits is selected, the
\* subreddit-filtered set has as many results as the count on that button,
\* the button r/unknown of the results without a subreddit field included.
C37_ButtonCountIsFilteredSize ==
    (~loading /\ subredditFilter # "all")
        => Len(subredditFilteredData) = subredditCount(subredditFilter)


\* the position of a result in a list that holds every reply id once
PositionIn(list, commentId) == CHOOSE k \in 1..Len(list) : list[k].commentId = commentId

\* C34: The displayed list holds the results of the filtered set, each once, in
\* descending order of the chosen key (the score, 0 when it is missing, or
\* analyzedAt), and two results of the same key are in the order they have in
\* the filtered set.
C34_SortedDescendingStable ==
    Probed("sort") =>
        LET given == probe[1].filteredData
            out == probe[1].sorted
            Key(d) == IF probe[1].sortBy = "upvotes"
                      THEN (IF "score" \in DOMAIN d THEN d.score ELSE 0)
                      ELSE d.analyzedAt
        IN  /\ Len(out) = Len(given)
            /\ Members(out) = Members(given)
            /\ \A i, j \in 1..Len(out) :
                  i < j => /\ Key(out[i]) >= Key(out[j])
                           /\ Key(out[i]) = Key(out[j])
                                => PositionIn(given, out[i].commentId)
                                     < PositionIn(given, out[j].commentId)

\* Sorted by score: a result without score and one of score 0 tie and keep
\* their order behind a result of positive score that came after them.
C34_Witness ==
    /\ Probed("sort")
    /\ probe[1].sortBy = "upvotes"
    /\ Len(probe[1].filteredData) = 3
    /\ "score" \notin DOMAIN probe[1].filteredData[1]
    /\ "score" \in DOMAIN probe[1].filteredData[2]
    /\ probe[1].filteredData[2].score = 0
    /\ "score" \in DOMAIN probe[1].filteredData[3]
    /\ probe[1].filteredData[3].score = 5
    /\ probe[1].sorted[1].commentId = "c3"
    /\ probe[1].sorted[2].commentId = "c1"


----------------------------------------------------------------------------
\* Classification over a source whose reply ids repeat across threads
\* (SpecSharedIds)

\* A thread of a source that numbers the replies within each thread: thread p2
\* with the reply ids of thread p1.
SharedIdStores ==
    {<<a, [b EXCEPT !.postId = "p2",
                    !.comments = [c \in 1..Len(b.comments) |->
                                    [b.comments[c] EXCEPT !.postId = "p2"]]]>> :
        a, b \in {x \in AnalyzePosts : x.postId = "p1"}}

InitSharedIds ==
    /\ apiKey = TRUE
    /\ exists = {INPUT_FILE}
    /\ cleanData \in SharedIdStores
    /\ discoveredFile = <<>>
    /\ redditData = <<>>
    /\ sentimentFile = <<>>
    /\ runLog = <<>>
    /\ dashboardFile = <<>>
    /\ AnalyzeAtRest
    /\ aRuns = 0
    /\ lastContext = <<>>
    /\ aCompleted = <<>>
    /\ aTerminated = FALSE
    /\ OtherAtRest
    /\ world = <<>>
    /\ ScrapeAtRest
    /\ sRuns = 0
    /\ listing = [s \in {} |-> <<>>]
    /\ DiscoverAtRest
    /\ DashboardAtRest

SpecSharedIds == InitSharedIds /\ [][NextAnalyze]_vars

\* sentiment_analysis.jsonl holds a result of this reply of this thread
StoredFor(postId, commentId) ==
    \E k \in 1..Len(sentimentFile) :
        /\ Parses(sentimentFile[k])
        /\ Field(sentimentFile[k], "postId") = postId
        /\ Field(sentimentFile[k], "commentId") = commentId

KeptThreads ==
    LET Wanted(line) == /\ Parses(line)
                        /\ Field(line, "postId") \in redditDiscovered(discoveredFile)
    IN  SelectSeq(redditData, Wanted)

\* C36: A run of the clean-dataset filter that finds reddit_data_clean.jsonl
\* equal to what a run over the present discovered_urls.jsonl and
\* reddit_data.jsonl writes leaves it as it is, each kept thread once.
C36_FilterIdempotent ==
    [][(/\ fRuns' = fRuns + 1
        /\ DISCOVERED_URLS_FILE \in exists
        /\ REDDIT_DATA_FILE \in exists
        /\ cleanData = KeptThreads)
       => cleanData' = cleanData]_vars


\* A step in which an invocation of Classification ends normally: the end of
\* main after the batch loop, which writes the run log, or the return of an
\* invocation that passed the start-up checks and found no candidate.
ClassificationEndsNormally ==
    \/ (aPc = "batch" /\ runLog' # runLog)
    \/ /\ aPc = "idle"
       /\ aRuns' = aRuns + 1
       /\ aPc' = "idle"
       /\ apiKey
       /\ INPUT_FILE \in exists
       /\ \A k \in 1..Len(cleanData) : Parses(cleanData[k])

\* C38: When an invocation of Classification ends normally, the dashboard copy
\* holds the same lines as sentiment_analysis.jsonl, also when the invocation
\* found no new candidate after an earlier one was terminated.
C38_DashboardCopyCurrent ==
    [][ClassificationEndsNormally => dashboardFile' = sentimentFile']_vars


\* C39: The parent walk of getThreadContext ends for every reply of every
\* flattened reply list: the chain holds no reply twice, ends with the target,
\* links each entry to the one before it by parentId, and starts at a reply
\* whose parentId is null or matches no reply of the list.
C39_WalkTerminates ==
    Probed("walk") =>
        LET chain == probe[1].walk.chain
            all == probe[1].allComments
        IN  /\ probe[1].walk.ends
            /\ chain # <<>>
            /\ chain[Len(chain)] = probe[1].comment
            /\ \A i, j \in 1..Len(chain) : i # j => chain[i] # chain[j]
            /\ \A i \in 2..Len(chain) : chain[i].parentId = chain[i - 1].id
            /\ \/ chain[1].parentId = Null
               \/ \A k \in 1..Len(all) : all[k].id # chain[1].parentId

\* The walk went up from a reply of depth 2 whose grandparent is gone from the
\* list, and stopped at the parent.
C39_Witness ==
    /\ Probed("walk")
    /\ probe[1].comment.depth = 2
    /\ Len(probe[1].walk.chain) = 2
    /\ probe[1].walk.chain[1].parentId # Null


----------------------------------------------------------------------------
\* Repeated classification with a classifier that fails on some replies
\* (SpecRetry)

\* The classifier fails on a fixed set of the eligible replies of the store, at
\* every call, and succeeds on the others.
InitRetry ==
    /\ apiKey = TRUE
    /\ exists = {INPUT_FILE}
    /\ cleanData \in AnalyzeStores
    /\ classifierFails \in SUBSET EligibleIds
    /\ redditCredentials = TRUE
    /\ fRuns = 0
    /\ probe = <<>>
    /\ discoveredFile = <<>>
    /\ redditData = <<>>
    /\ sentimentFile = <<>>
    /\ runLog = <<>>
    /\ dashboardFile = <<>>
    /\ AnalyzeAtRest
    /\ aRuns = 0
    /\ lastContext = <<>>
    /\ aCompleted = <<>>
    /\ aTerminated = FALSE
    /\ world = <<>>
    /\ ScrapeAtRest
    /\ sRuns = 0
    /\ listing = [s \in {} |-> <<>>]
    /\ DiscoverAtRest
    /\ DashboardAtRest

\* An iteration of the batch loop: the call fails exactly on the replies of
\* classifierFails.
AnalyzeStepRetry ==
    /\ AnalyzeStep
    /\ (analyzed' = analyzed + 1) <=> (batch[ai + 1].comment.id \notin classifierFails)

NextRetry ==
    \/ AnalyzeStart
    \/ AnalyzeStepRetry
    \/ AnalyzeFinish

SpecRetry == InitRetry /\ [][NextRetry]_vars

\* C35: A reply whose classification failed has no stored result, and the
\* repeated invocations get to every eligible reply the classifier succeeds on:
\* an invocation that ends while such a reply has no result has classified at
\* least one reply, so that finitely many invocations classify them all
\* whatever the classifier does on the other replies.
C35_FailedRetriedOthersReached ==
    /\ [](StoredIds \cap classifierFails = {})
    /\ [][(/\ aPc = "batch"
           /\ runLog' # runLog
           /\ (EligibleIds \ classifierFails) \ StoredIds # {})
          => analyzed >= 1]_vars


----------------------------------------------------------------------------
\* Google discovery (discover.ts) next to the Reddit discovery (SpecDiscoveries)

\* Links of the results of a search.
MaxLinks == 2

RedditHosts == {"https://reddit.com", "https://www.reddit.com", "https://old.reddit.com"}

\* extractRedditPostId: url.match(/reddit\.com\/r\/\w+\/comments\/(\w+)/)
extractRedditPostId(url) ==
    IF /\ Len(url) >= 5
       /\ url[1] \in RedditHosts
       /\ url[2] = "/r/"
       /\ url[4] = "/comments/"
       /\ url[5] \in PostIds
    THEN url[5]
    ELSE Null

\* The links Google returns: a thread under the host the Reddit discovery writes
\* and under www, the front page of a subreddit, a page of another site.
GoogleLinks ==
    { RedditUrl("https://reddit.com", "ClaudeCode", "p1"),
      RedditUrl("https://www.reddit.com", "ClaudeCode", "p1"),
      <<"https://www.reddit.com", "/r/", "ClaudeCode", "/">>,
      <<"https://example.com", "/">> }

\* The loop of discoverThreads over the results of all pages of a query, in
\* order: the records appended, given the urls known so far.
RECURSIVE GoogleLoop(_, _, _)
GoogleLoop(results, urls, query) ==
    IF results = <<>> THEN <<>>
    ELSE LET link == Head(results)
         IN  IF \/ link[1] \notin RedditHosts
                \/ link \in urls
                \/ extractRedditPostId(link) = Null
             THEN GoogleLoop(Tail(results), urls, query)
             ELSE <<[url |-> link, query |-> query]>>
                  \o GoogleLoop(Tail(results), urls \cup {link}, query)

\* discoverThreads(query): discovered_urls.jsonl after the call
discoverThreads(lines, query, results) ==
    lines \o GoogleLoop(results, loadDiscoveredURLs(lines), query)

Reverse(seq) == [k \in 1..Len(seq) |-> seq[Len(seq) + 1 - k]]

\* `npm run discover` of the Google discovery, run while the Reddit discovery
\* is not running: main calls discoverThreads for a first and a second query.
\* The second search returns nothing, or the results of the first one in the
\* opposite order.
GoogleDiscover ==
    /\ dPc = "idle"
    /\ \E first \in SeqsUpTo(GoogleLinks, MaxLinks) :
          \E second \in {<<>>, Reverse(first)} :
             /\ discoveredFile' =
                   discoverThreads(discoverThreads(discoveredFile, "q1", first),
                                   "q2", second)
             /\ exists' = IF discoveredFile' # <<>>
                          THEN exists \cup {DISCOVERED_URLS_FILE}
                          ELSE exists
    /\ UNCHANGED <<redditData, cleanData, sentimentFile, runLog, dashboardFile,
                   analyzeVars, scrapeVars, discoverVars, dashVars, otherVars>>

NextDiscoveries ==
    \/ PipelineDiscoverStart
    \/ DiscoverPage
    \/ DiscoverKill
    \/ GoogleDiscover

SpecDiscoveries == InitDiscover /\ [][NextDiscoveries]_vars

\* C33: Whatever runs of the Reddit discovery and of the Google discovery have
\* taken place, one after the other, no two lines of discovered_urls.jsonl hold
\* the same url.
C33_NoUrlTwice ==
    \A j, k \in 1..Len(discoveredFile) :
        (j # k /\ Parses(discoveredFile[j]) /\ Parses(discoveredFile[k]))
            => Field(discoveredFile[j], "url") # Field(discoveredFile[k], "url")

\* Both discoveries have added a reference, the Reddit discovery after meeting
\* the thread that Google had found under the same url.
C33_Witness ==
    /\ Len(discoveredFile) >= 2
    /\ discoveredFile[1].query = "q1"
    /\ discoveredFile[1].url = RedditUrl("https://reddit.com", "ClaudeCode", "p1")
    /\ \E k \in 2..Len(discoveredFile) : discoveredFile[k].query = "reddit_api"
    /\ \E k \in 2..Len(discoveredFile) : discoveredFile[k].query \in {"q1", "q2"}
    /\ dPc = "idle"
    /\ dDone

====
